---- MODULE Spec2Model ----
(***************************************************************************)
(* The 6502 translator of src/main.c: main() maps guest memory and the     *)
(* translation arena, reads the OS ROM, fills the arena (jit_init),        *)
(* translates the ROM (jit_jit) and enters the translated code at the     *)
(* reset vector (jit_enter).  The translator's output is modelled as the   *)
(* host bytes it writes; running a slot decodes and executes those bytes   *)
(* with the x86-64 semantics of the instructions the translator emits.     *)
(***************************************************************************)
EXTENDS Integers, Sequences, FiniteSets, TLC

VARIABLES pc, p_mem, mem, rom, jit, cpu, steps, hist, probe, via

vars == <<pc, p_mem, mem, rom, jit, cpu, steps, hist, probe, via>>

(***************************************************************************)
(* Program constants.                                                      *)
(***************************************************************************)
k_addr_space_size == 65536
k_guard_size == 4096
k_os_rom_offset == 49152
k_os_rom_len == 16384
k_jit_bytes_per_byte == 64
k_vector_reset == 65532

\* Offset of the arena from p_mem: p_jit = p_mem + k_addr_space_size + k_guard_size.
p_jit_offset == k_addr_space_size + k_guard_size

(***************************************************************************)
(* Bounds of the model.                                                    *)
(***************************************************************************)
\* Guest instructions (slots) executed after jit_enter before the model stops
\* following the run.
MaxSteps == 6

\* Host addresses mmap may return for the mapping (page aligned); p_mem is
\* p_map + k_guard_size.
MapAddrs == {520192}

Byte == 0..255

(***************************************************************************)
(* Guest memory, kept sparsely: main's anonymous mapping reads as zero      *)
(* wherever nothing was written.                                           *)
(***************************************************************************)
MemRead(m, a) == IF a \in DOMAIN m THEN m[a] ELSE 0

MemWrite(m, a, v) == [x \in (DOMAIN m) \cup {a} |-> IF x = a THEN v ELSE m[x]]

(***************************************************************************)
(* The emitters.  The buffer p_jit[0..index) of the slot being written is  *)
(* the sequence `code`, and index is its length.  A failed assert appends  *)
(* the marker AssertFailed, which is no byte.                              *)
(***************************************************************************)
AssertFailed == -1

jit_emit_int(code, offset) ==
  code \o << offset % 256,
             (offset \div 256) % 256,
             (offset \div 65536) % 256,
             (offset \div 16777216) % 256 >>

\* jmp_next whose long form keeps the offset computed for the short form.
jit_emit_do_jmp_next_no_adjust(code, jit_stride, oplen) ==
  LET index == Len(code)
      offset == (jit_stride * oplen) - (index + 2)
  IN  IF ~(index + 2 <= jit_stride)
      THEN code \o <<AssertFailed>>
      ELSE IF offset >= 0 /\ offset <= 127
           THEN code \o <<\heb, offset>>
           ELSE jit_emit_int(code \o <<\he9>>, offset)

\* offset is a size_t: the comparison with 0x7f is unsigned, so a negative
\* difference (which wraps to a huge value) takes the long form.
jit_emit_do_jmp_next(code, jit_stride, oplen) ==
  LET index == Len(code)
      offset == (jit_stride * oplen) - (index + 2)
  IN  IF ~(index + 2 <= jit_stride)
      THEN code \o <<AssertFailed>>
      ELSE IF offset >= 0 /\ offset <= 127
           THEN code \o <<\heb, offset>>
           ELSE jit_emit_int(code \o <<\he9>>, offset - 3)

\* (char) unsigned_jump_size: the displacement as a signed 8-bit value.
SignedChar(b) == IF b >= 128 THEN b - 256 ELSE b

\* relative jump whose long form keeps the offset computed for the short form.
jit_emit_do_relative_jump_no_adjust(code, jit_stride, intel_opcode, unsigned_jump_size) ==
  LET index == Len(code)
      jump_size == SignedChar(unsigned_jump_size)
      offset == (jit_stride * (jump_size + 2)) - (index + 2)
  IN  IF offset <= 127 /\ offset >= -128
      THEN IF ~(index + 2 <= jit_stride)
           THEN code \o <<AssertFailed>>
           ELSE code \o <<intel_opcode, offset % 256>>
      ELSE IF ~(index + 6 <= jit_stride)
           THEN code \o <<AssertFailed>>
           ELSE jit_emit_int(code \o <<\h0f, (intel_opcode + 16) % 256>>, offset)

jit_emit_do_relative_jump(code, jit_stride, intel_opcode, unsigned_jump_size) ==
  LET index == Len(code)
      jump_size == SignedChar(unsigned_jump_size)
      offset == (jit_stride * (jump_size + 2)) - (index + 2)
  IN  IF offset <= 127 /\ offset >= -128
      THEN IF ~(index + 2 <= jit_stride)
           THEN code \o <<AssertFailed>>
           ELSE code \o <<intel_opcode, offset % 256>>
      ELSE IF ~(index + 6 <= jit_stride)
           THEN code \o <<AssertFailed>>
           ELSE jit_emit_int(code \o <<\h0f, (intel_opcode + 16) % 256>>, offset - 4)

jit_emit_do_zn_flags(code, reg) ==
  LET index == Len(code)
      test == CASE reg = -1 -> <<>>
                [] reg = 0 -> <<\h84, \hc0>>
                [] reg = 1 -> <<\h84, \hdb>>
                [] reg = 2 -> <<\h84, \hff>>
                [] OTHER -> <<>>
  IN  IF ~(index + 8 <= k_jit_bytes_per_byte)
      THEN code \o <<AssertFailed>>
      ELSE code \o test \o <<\h0f, \h94, \hc2, \h0f, \h98, \hc6>>

\* default case that writes the guest address little endian.
jit_jit_default_le(opcode, jit_offset) ==
  <<\h0f, \h0b, opcode, jit_offset % 256, (jit_offset \div 256) % 256>>

\* default: ud2, the opcode, the guest address big endian.
jit_jit_default(opcode, jit_offset) ==
  <<\h0f, \h0b, opcode, (jit_offset \div 256) % 256, jit_offset % 256>>


\* PHP that shifts the N shard to bit 6 instead of bit 7 (shl r9, 6).
jit_jit_PHP_N_bit6(jit_stride, operand1, operand2) ==
  LET c1 == <<\h4c, \h89, \hc6, \h49, \h89, \hc1, \h49, \hc1, \he9, \h08, \h4c, \h09,
                \hce, \h49, \h89, \hd1, \h49, \h83, \he1, \h01, \h49, \hd1, \he1, \h4c,
                \h09, \hce, \h49, \h89, \hd1, \h49, \hc1, \he9, \h08, \h49, \hc1, \he1,
                \h06, \h4c, \h09, \hce, \h40, \h88, \h34, \h0f, \hfe, \hc9>>
      c2 == jit_emit_do_jmp_next(c1, jit_stride, 1)
  IN  c2

\* case 0x08: PHP
jit_jit_PHP(jit_stride, operand1, operand2) ==
  LET c1 == <<\h4c, \h89, \hc6, \h49, \h89, \hc1, \h49, \hc1, \he9, \h08, \h4c, \h09,
                \hce, \h49, \h89, \hd1, \h49, \h83, \he1, \h01, \h49, \hd1, \he1, \h4c,
                \h09, \hce, \h49, \h89, \hd1, \h49, \hc1, \he9, \h08, \h49, \hc1, \he1,
                \h07, \h4c, \h09, \hce, \h40, \h88, \h34, \h0f, \hfe, \hc9>>
      c2 == jit_emit_do_jmp_next(c1, jit_stride, 1)
  IN  c2

\* case 0x09: ORA #imm
jit_jit_ORA_imm(jit_stride, operand1, operand2) ==
  LET c1 == <<\h0c, operand1>>
      c2 == jit_emit_do_zn_flags(c1, -1)
      c3 == jit_emit_do_jmp_next(c2, jit_stride, 2)
  IN  c3

\* case 0x0a: ASL A
jit_jit_ASL_A(jit_stride, operand1, operand2) ==
  LET c1 == <<\hd0, \he0, \h0f, \h92, \hc4>>
      c2 == jit_emit_do_zn_flags(c1, -1)
      c3 == jit_emit_do_jmp_next(c2, jit_stride, 1)
  IN  c3

\* case 0x10: BPL
jit_jit_BPL(jit_stride, operand1, operand2) ==
  LET c1 == <<\h84, \hf6>>
      c2 == jit_emit_do_relative_jump(c1, jit_stride, \h74, operand1)
      c3 == jit_emit_do_jmp_next(c2, jit_stride, 2)
  IN  c3

\* BIT zp with "and esi, 0x20": bit 5 of the operand is copied, not bit 6.
jit_jit_BIT_zp_V_bit5(jit_stride, operand1, operand2) ==
  LET c1 == <<\h8a, \h97>>
      c2 == jit_emit_int(c1, operand1)
      c3 == c2 \o <<\h0f, \hba, \he2, \h07, \h0f, \h92, \hc6, \h89, \hd6, \h83, \he6, \h20,
                \h41, \h80, \he0, \hbf, \h49, \h09, \hf0, \h20, \hc2, \h0f, \h94, \hc2>>
      c4 == jit_emit_do_jmp_next(c3, jit_stride, 2)
  IN  c4

\* case 0x24: BIT zp
jit_jit_BIT_zp(jit_stride, operand1, operand2) ==
  LET c1 == <<\h8a, \h97>>
      c2 == jit_emit_int(c1, operand1)
      c3 == c2 \o <<\h0f, \hba, \he2, \h07, \h0f, \h92, \hc6, \h89, \hd6, \h83, \he6, \h40,
                \h41, \h80, \he0, \hbf, \h49, \h09, \hf0, \h20, \hc2, \h0f, \h94, \hc2>>
      c4 == jit_emit_do_jmp_next(c3, jit_stride, 2)
  IN  c4

\* case 0x26: ROL zp
jit_jit_ROL_zp(jit_stride, operand1, operand2) ==
  LET c1 == <<\hd0, \hec, \hd0, \h97>>
      c2 == jit_emit_int(c1, operand1)
      c3 == c2 \o <<\h0f, \h92, \hc4>>
      c4 == jit_emit_do_zn_flags(c3, -1)
      c5 == jit_emit_do_jmp_next(c4, jit_stride, 2)
  IN  c5

\* case 0x28: PLP
jit_jit_PLP(jit_stride, operand1, operand2) ==
  LET c1 == <<\hfe, \hc1, \h44, \h8a, \h04, \h0f, \h49, \h0f, \hba, \he0, \h00, \h0f,
                \h92, \hc4, \h49, \h0f, \hba, \he0, \h01, \h0f, \h92, \hc2, \h49, \h0f,
                \hba, \he0, \h07, \h0f, \h92, \hc6, \h41, \h80, \he0, \h7c>>
      c2 == jit_emit_do_jmp_next(c1, jit_stride, 1)
  IN  c2

\* case 0x29: AND #imm
jit_jit_AND_imm(jit_stride, operand1, operand2) ==
  LET c1 == <<\h24, operand1>>
      c2 == jit_emit_do_zn_flags(c1, -1)
      c3 == jit_emit_do_jmp_next(c2, jit_stride, 2)
  IN  c3

\* case 0x38: SEC
jit_jit_SEC(jit_stride, operand1, operand2) ==
  LET c1 == <<\hb4, \h01>>
      c2 == jit_emit_do_jmp_next(c1, jit_stride, 1)
  IN  c2

\* case 0x66: ROR zp
jit_jit_ROR_zp(jit_stride, operand1, operand2) ==
  LET c1 == <<\hd0, \hec, \hd0, \h9f>>
      c2 == jit_emit_int(c1, operand1)
      c3 == c2 \o <<\h0f, \h92, \hc4>>
      c4 == jit_emit_do_zn_flags(c3, -1)
      c5 == jit_emit_do_jmp_next(c4, jit_stride, 2)
  IN  c5

\* JSR that does not save rax around the return-address computation.
jit_jit_JSR_no_save(jit_stride, operand1, operand2) ==
  LET c1 == <<\h48, \h8d, \h05>>
      c2 == jit_emit_int(c1, -(k_addr_space_size + k_guard_size))
      c3 == c2 \o <<\h48, \h29, \hf8, \hc1, \he8, \h06, \h83, \hc0, \h02, \h88, \h24, \h0f,
                \hfe, \hc9, \h88, \h04, \h0f, \hfe, \hc9, \h48, \h8d, \hb7>>
      c4 == jit_emit_int(c3, k_addr_space_size + k_guard_size + ((operand1 + (operand2 * 256)) * jit_stride))
      c5 == c4 \o <<\hff, \he6>>
  IN  c5

\* case 0x20: JSR
jit_jit_JSR(jit_stride, operand1, operand2) ==
  LET c1 == <<\h50, \h48, \h8d, \h05>>
      c2 == jit_emit_int(c1, -(k_addr_space_size + k_guard_size))
      c3 == c2 \o <<\h48, \h29, \hf8, \hc1, \he8, \h06, \h83, \hc0, \h02, \h88, \h24, \h0f,
                \hfe, \hc9, \h88, \h04, \h0f, \hfe, \hc9, \h58, \h48, \h8d, \hb7>>
      c4 == jit_emit_int(c3, k_addr_space_size + k_guard_size + ((operand1 + (operand2 * 256)) * jit_stride))
      c5 == c4 \o <<\hff, \he6>>
  IN  c5

\* PHA that decrements the 16-bit cx (66 ff c9) instead of cl.
jit_jit_PHA_dec_cx(jit_stride, operand1, operand2) ==
  LET c1 == <<\h88, \h04, \h0f, \h66, \hff, \hc9>>
      c2 == jit_emit_do_jmp_next(c1, jit_stride, 1)
  IN  c2

\* case 0x48: PHA
jit_jit_PHA(jit_stride, operand1, operand2) ==
  LET c1 == <<\h88, \h04, \h0f, \hfe, \hc9>>
      c2 == jit_emit_do_jmp_next(c1, jit_stride, 1)
  IN  c2

\* case 0x4a: LSR A
jit_jit_LSR_A(jit_stride, operand1, operand2) ==
  LET c1 == <<\hd0, \he8, \h0f, \h92, \hc4>>
      c2 == jit_emit_do_zn_flags(c1, -1)
      c3 == jit_emit_do_jmp_next(c2, jit_stride, 1)
  IN  c3

\* JMP abs with the guard page left out of the displacement.
jit_jit_JMP_no_guard(jit_stride, operand1, operand2) ==
  LET c1 == <<\h48, \h8d, \hb7>>
      c2 == jit_emit_int(c1, k_addr_space_size + ((operand1 + (operand2 * 256)) * jit_stride))
      c3 == c2 \o <<\hff, \he6>>
  IN  c3

\* case 0x4c: JMP
jit_jit_JMP(jit_stride, operand1, operand2) ==
  LET c1 == <<\h48, \h8d, \hb7>>
      c2 == jit_emit_int(c1, k_addr_space_size + k_guard_size + ((operand1 + (operand2 * 256)) * jit_stride))
      c3 == c2 \o <<\hff, \he6>>
  IN  c3

\* case 0x50: BVC
jit_jit_BVC(jit_stride, operand1, operand2) ==
  LET c1 == <<\h41, \hf6, \hc0, \h40>>
      c2 == jit_emit_do_relative_jump(c1, jit_stride, \h74, operand1)
      c3 == jit_emit_do_jmp_next(c2, jit_stride, 2)
  IN  c3

\* case 0x58: CLI
jit_jit_CLI(jit_stride, operand1, operand2) ==
  LET c1 == <<\h49, \h0f, \hba, \hf0, \h02>>
      c2 == jit_emit_do_jmp_next(c1, jit_stride, 1)
  IN  c2

\* RTS that does not add 1 to the pulled address (no inc ax).
jit_jit_RTS_no_inc(jit_stride, operand1, operand2) ==
  LET c1 == <<\h50, \hfe, \hc1, \h8a, \h04, \h0f, \hfe, \hc1, \h8a, \h24, \h0f,
                \hc1, \he0, \h06, \h48, \h8d, \hb4, \h38>>
      c2 == jit_emit_int(c1, k_addr_space_size + k_guard_size)
      c3 == c2 \o <<\h58, \hff, \he6>>
  IN  c3

\* case 0x60: RTS
jit_jit_RTS(jit_stride, operand1, operand2) ==
  LET c1 == <<\h50, \hfe, \hc1, \h8a, \h04, \h0f, \hfe, \hc1, \h8a, \h24, \h0f, \h66,
                \hff, \hc0, \hc1, \he0, \h06, \h48, \h8d, \hb4, \h38>>
      c2 == jit_emit_int(c1, k_addr_space_size + k_guard_size)
      c3 == c2 \o <<\h58, \hff, \he6>>
  IN  c3

\* case 0x68: PLA
jit_jit_PLA(jit_stride, operand1, operand2) ==
  LET c1 == <<\hfe, \hc1, \h8a, \h04, \h0f>>
      c2 == jit_emit_do_zn_flags(c1, 0)
      c3 == jit_emit_do_jmp_next(c2, jit_stride, 1)
  IN  c3

\* case 0x6a: ROR A
jit_jit_ROR_A(jit_stride, operand1, operand2) ==
  LET c1 == <<\hd0, \hec, \hd0, \hd8, \h0f, \h92, \hc4>>
      c2 == jit_emit_do_zn_flags(c1, -1)
      c3 == jit_emit_do_jmp_next(c2, jit_stride, 1)
  IN  c3

\* case 0x78: SEI
jit_jit_SEI(jit_stride, operand1, operand2) ==
  LET c1 == <<\h49, \h0f, \hba, \he8, \h02>>
      c2 == jit_emit_do_jmp_next(c1, jit_stride, 1)
  IN  c2

\* case 0x85: STA zp
jit_jit_STA_zp(jit_stride, operand1, operand2) ==
  LET c1 == <<\h88, \h87, operand1, \h00, \h00, \h00>>
      c2 == jit_emit_do_jmp_next(c1, jit_stride, 2)
  IN  c2

\* case 0x88: DEY
jit_jit_DEY(jit_stride, operand1, operand2) ==
  LET c1 == <<\hfe, \hcf>>
      c2 == jit_emit_do_zn_flags(c1, -1)
      c3 == jit_emit_do_jmp_next(c2, jit_stride, 1)
  IN  c3

\* case 0x8a: TXA
jit_jit_TXA(jit_stride, operand1, operand2) ==
  LET c1 == <<\h88, \hd8>>
      c2 == jit_emit_do_zn_flags(c1, 0)
      c3 == jit_emit_do_jmp_next(c2, jit_stride, 1)
  IN  c3

\* case 0x8d: STA abs
jit_jit_STA_abs(jit_stride, operand1, operand2) ==
  LET c1 == <<\h88, \h87, operand1, operand2, \h00, \h00>>
      c2 == jit_emit_do_jmp_next(c1, jit_stride, 3)
  IN  c2

\* case 0x8c: STY abs
jit_jit_STY_abs(jit_stride, operand1, operand2) ==
  LET c1 == <<\h88, \hbf, operand1, operand2, \h00, \h00>>
      c2 == jit_emit_do_jmp_next(c1, jit_stride, 3)
  IN  c2

\* case 0x8e: STX abs
jit_jit_STX_abs(jit_stride, operand1, operand2) ==
  LET c1 == <<\h88, \h9f, operand1, operand2, \h00, \h00>>
      c2 == jit_emit_do_jmp_next(c1, jit_stride, 3)
  IN  c2

\* case 0x90: BCC
jit_jit_BCC(jit_stride, operand1, operand2) ==
  LET c1 == <<\h84, \he4>>
      c2 == jit_emit_do_relative_jump(c1, jit_stride, \h74, operand1)
      c3 == jit_emit_do_jmp_next(c2, jit_stride, 2)
  IN  c3

\* STA zp,X without the 8-bit mask ("and si, 0xffff").
jit_jit_STA_zp_X_no_mask(jit_stride, operand1, operand2) ==
  LET c1 == <<\h89, \hde, \h66, \h81, \hc6, operand1, \h00, \h66, \h81, \he6, \hff, \hff,
                \h88, \h04, \h37>>
      c2 == jit_emit_do_jmp_next(c1, jit_stride, 2)
  IN  c2

\* case 0x95: STA zp, X
jit_jit_STA_zp_X(jit_stride, operand1, operand2) ==
  LET c1 == <<\h89, \hde, \h66, \h81, \hc6, operand1, \h00, \h66, \h81, \he6, \hff, \h00,
                \h88, \h04, \h37>>
      c2 == jit_emit_do_jmp_next(c1, jit_stride, 2)
  IN  c2

\* case 0x99: STA abs, Y
jit_jit_STA_abs_Y(jit_stride, operand1, operand2) ==
  LET c1 == <<\h89, \hde, \hc1, \hee, \h08, \h66, \h81, \hc6, operand1, operand2, \h88, \h04,
                \h37>>
      c2 == jit_emit_do_jmp_next(c1, jit_stride, 3)
  IN  c2

\* case 0x9a: TXS
jit_jit_TXS(jit_stride, operand1, operand2) ==
  LET c1 == <<\h88, \hd9>>
      c2 == jit_emit_do_jmp_next(c1, jit_stride, 1)
  IN  c2

\* STA abs,X with a 32-bit add of the operand ("add esi, op1,op2"): the sum
\* can pass 0xFFFF.
jit_jit_STA_abs_X_add32(jit_stride, operand1, operand2) ==
  LET c1 == <<\h89, \hde, \h66, \h81, \he6, \hff, \h00, \h81, \hc6, operand1, operand2,
                \h00, \h00, \h88, \h04, \h37>>
      c2 == jit_emit_do_jmp_next(c1, jit_stride, 3)
  IN  c2

\* case 0x9d: STA abs, X
jit_jit_STA_abs_X(jit_stride, operand1, operand2) ==
  LET c1 == <<\h89, \hde, \h66, \h81, \he6, \hff, \h00, \h66, \h81, \hc6, operand1, operand2,
                \h88, \h04, \h37>>
      c2 == jit_emit_do_jmp_next(c1, jit_stride, 3)
  IN  c2

\* case 0xa0: LDY #imm
jit_jit_LDY_imm(jit_stride, operand1, operand2) ==
  LET c1 == <<\hb7, operand1>>
      c2 == jit_emit_do_zn_flags(c1, 2)
      c3 == jit_emit_do_jmp_next(c2, jit_stride, 2)
  IN  c3

\* case 0xa2: LDX #imm
jit_jit_LDX_imm(jit_stride, operand1, operand2) ==
  LET c1 == <<\hb3, operand1>>
      c2 == jit_emit_do_zn_flags(c1, 1)
      c3 == jit_emit_do_jmp_next(c2, jit_stride, 2)
  IN  c3

\* case 0xa9: LDA #imm
jit_jit_LDA_imm(jit_stride, operand1, operand2) ==
  LET c1 == <<\hb0, operand1>>
      c2 == jit_emit_do_zn_flags(c1, 0)
      c3 == jit_emit_do_jmp_next(c2, jit_stride, 2)
  IN  c3

\* case 0xaa: TAX
jit_jit_TAX(jit_stride, operand1, operand2) ==
  LET c1 == <<\h88, \hc3>>
      c2 == jit_emit_do_zn_flags(c1, 1)
      c3 == jit_emit_do_jmp_next(c2, jit_stride, 1)
  IN  c3

\* case 0xac: LDY abs
jit_jit_LDY_abs(jit_stride, operand1, operand2) ==
  LET c1 == <<\h8a, \hbf, operand1, operand2, \h00, \h00>>
      c2 == jit_emit_do_zn_flags(c1, 2)
      c3 == jit_emit_do_jmp_next(c2, jit_stride, 3)
  IN  c3

\* case 0xad: LDA abs
jit_jit_LDA_abs(jit_stride, operand1, operand2) ==
  LET c1 == <<\h8a, \h87, operand1, operand2, \h00, \h00>>
      c2 == jit_emit_do_zn_flags(c1, 0)
      c3 == jit_emit_do_jmp_next(c2, jit_stride, 3)
  IN  c3

\* case 0xae: LDX abs
jit_jit_LDX_abs(jit_stride, operand1, operand2) ==
  LET c1 == <<\h8a, \h9f, operand1, operand2, \h00, \h00>>
      c2 == jit_emit_do_zn_flags(c1, 1)
      c3 == jit_emit_do_jmp_next(c2, jit_stride, 3)
  IN  c3

\* case 0xb0: BCS
jit_jit_BCS(jit_stride, operand1, operand2) ==
  LET c1 == <<\h84, \he4>>
      c2 == jit_emit_do_relative_jump(c1, jit_stride, \h75, operand1)
      c3 == jit_emit_do_jmp_next(c2, jit_stride, 2)
  IN  c3

\* case 0xb9: LDA abs, Y
jit_jit_LDA_abs_Y(jit_stride, operand1, operand2) ==
  LET c1 == <<\h89, \hde, \hc1, \hee, \h08, \h66, \h81, \hc6, operand1, operand2, \h8a, \h04,
                \h37>>
      c2 == jit_emit_do_jmp_next(c1, jit_stride, 3)
  IN  c2

\* case 0xc9: CMP #imm
jit_jit_CMP_imm(jit_stride, operand1, operand2) ==
  LET c1 == <<\h88, \hc4, \h80, \hec, operand1, \h0f, \h93, \hc4>>
      c2 == jit_emit_do_zn_flags(c1, -1)
      c3 == jit_emit_do_jmp_next(c2, jit_stride, 2)
  IN  c3

\* case 0xca: DEX
jit_jit_DEX(jit_stride, operand1, operand2) ==
  LET c1 == <<\hfe, \hcb>>
      c2 == jit_emit_do_zn_flags(c1, -1)
      c3 == jit_emit_do_jmp_next(c2, jit_stride, 1)
  IN  c3

\* case 0xcd: CMP abs
jit_jit_CMP_abs(jit_stride, operand1, operand2) ==
  LET c1 == <<\h88, \hc4, \h2a, \ha7, operand1, operand2, \h00, \h00, \h0f, \h93, \hc4>>
      c2 == jit_emit_do_zn_flags(c1, -1)
      c3 == jit_emit_do_jmp_next(c2, jit_stride, 3)
  IN  c3

\* BNE emitted with jne (0x75): the branch is taken when Z = 1.
jit_jit_BNE_jne(jit_stride, operand1, operand2) ==
  LET c1 == <<\h84, \hd2>>
      c2 == jit_emit_do_relative_jump(c1, jit_stride, \h75, operand1)
      c3 == jit_emit_do_jmp_next(c2, jit_stride, 2)
  IN  c3

\* case 0xd0: BNE
jit_jit_BNE(jit_stride, operand1, operand2) ==
  LET c1 == <<\h84, \hd2>>
      c2 == jit_emit_do_relative_jump(c1, jit_stride, \h74, operand1)
      c3 == jit_emit_do_jmp_next(c2, jit_stride, 2)
  IN  c3

\* case 0xd8: CLD
jit_jit_CLD(jit_stride, operand1, operand2) ==
  LET c1 == <<\h49, \h0f, \hba, \hf0, \h03>>
      c2 == jit_emit_do_jmp_next(c1, jit_stride, 1)
  IN  c2

\* case 0xe0: CPX #imm
jit_jit_CPX_imm(jit_stride, operand1, operand2) ==
  LET c1 == <<\h88, \hdc, \h80, \hec, operand1, \h0f, \h93, \hc4>>
      c2 == jit_emit_do_zn_flags(c1, -1)
      c3 == jit_emit_do_jmp_next(c2, jit_stride, 2)
  IN  c3

\* case 0xe8: INX
jit_jit_INX(jit_stride, operand1, operand2) ==
  LET c1 == <<\hfe, \hc3>>
      c2 == jit_emit_do_zn_flags(c1, -1)
      c3 == jit_emit_do_jmp_next(c2, jit_stride, 1)
  IN  c3

\* case 0xf0: BEQ
jit_jit_BEQ(jit_stride, operand1, operand2) ==
  LET c1 == <<\h84, \hd2>>
      c2 == jit_emit_do_relative_jump(c1, jit_stride, \h75, operand1)
      c3 == jit_emit_do_jmp_next(c2, jit_stride, 2)
  IN  c3

\* switch (opcode): the emitter of each implemented opcode; any other value
\* takes the default case.
jit_jit_case(opcode, jit_stride, jit_offset, operand1, operand2) ==
  CASE opcode = \h08 -> jit_jit_PHP(jit_stride, operand1, operand2)
    [] opcode = \h09 -> jit_jit_ORA_imm(jit_stride, operand1, operand2)
    [] opcode = \h0a -> jit_jit_ASL_A(jit_stride, operand1, operand2)
    [] opcode = \h10 -> jit_jit_BPL(jit_stride, operand1, operand2)
    [] opcode = \h24 -> jit_jit_BIT_zp(jit_stride, operand1, operand2)
    [] opcode = \h26 -> jit_jit_ROL_zp(jit_stride, operand1, operand2)
    [] opcode = \h28 -> jit_jit_PLP(jit_stride, operand1, operand2)
    [] opcode = \h29 -> jit_jit_AND_imm(jit_stride, operand1, operand2)
    [] opcode = \h38 -> jit_jit_SEC(jit_stride, operand1, operand2)
    [] opcode = \h66 -> jit_jit_ROR_zp(jit_stride, operand1, operand2)
    [] opcode = \h20 -> jit_jit_JSR(jit_stride, operand1, operand2)
    [] opcode = \h48 -> jit_jit_PHA(jit_stride, operand1, operand2)
    [] opcode = \h4a -> jit_jit_LSR_A(jit_stride, operand1, operand2)
    [] opcode = \h4c -> jit_jit_JMP(jit_stride, operand1, operand2)
    [] opcode = \h50 -> jit_jit_BVC(jit_stride, operand1, operand2)
    [] opcode = \h58 -> jit_jit_CLI(jit_stride, operand1, operand2)
    [] opcode = \h60 -> jit_jit_RTS(jit_stride, operand1, operand2)
    [] opcode = \h68 -> jit_jit_PLA(jit_stride, operand1, operand2)
    [] opcode = \h6a -> jit_jit_ROR_A(jit_stride, operand1, operand2)
    [] opcode = \h78 -> jit_jit_SEI(jit_stride, operand1, operand2)
    [] opcode = \h85 -> jit_jit_STA_zp(jit_stride, operand1, operand2)
    [] opcode = \h88 -> jit_jit_DEY(jit_stride, operand1, operand2)
    [] opcode = \h8a -> jit_jit_TXA(jit_stride, operand1, operand2)
    [] opcode = \h8d -> jit_jit_STA_abs(jit_stride, operand1, operand2)
    [] opcode = \h8c -> jit_jit_STY_abs(jit_stride, operand1, operand2)
    [] opcode = \h8e -> jit_jit_STX_abs(jit_stride, operand1, operand2)
    [] opcode = \h90 -> jit_jit_BCC(jit_stride, operand1, operand2)
    [] opcode = \h95 -> jit_jit_STA_zp_X(jit_stride, operand1, operand2)
    [] opcode = \h99 -> jit_jit_STA_abs_Y(jit_stride, operand1, operand2)
    [] opcode = \h9a -> jit_jit_TXS(jit_stride, operand1, operand2)
    [] opcode = \h9d -> jit_jit_STA_abs_X(jit_stride, operand1, operand2)
    [] opcode = \ha0 -> jit_jit_LDY_imm(jit_stride, operand1, operand2)
    [] opcode = \ha2 -> jit_jit_LDX_imm(jit_stride, operand1, operand2)
    [] opcode = \ha9 -> jit_jit_LDA_imm(jit_stride, operand1, operand2)
    [] opcode = \haa -> jit_jit_TAX(jit_stride, operand1, operand2)
    [] opcode = \hac -> jit_jit_LDY_abs(jit_stride, operand1, operand2)
    [] opcode = \had -> jit_jit_LDA_abs(jit_stride, operand1, operand2)
    [] opcode = \hae -> jit_jit_LDX_abs(jit_stride, operand1, operand2)
    [] opcode = \hb0 -> jit_jit_BCS(jit_stride, operand1, operand2)
    [] opcode = \hb9 -> jit_jit_LDA_abs_Y(jit_stride, operand1, operand2)
    [] opcode = \hc9 -> jit_jit_CMP_imm(jit_stride, operand1, operand2)
    [] opcode = \hca -> jit_jit_DEX(jit_stride, operand1, operand2)
    [] opcode = \hcd -> jit_jit_CMP_abs(jit_stride, operand1, operand2)
    [] opcode = \hd0 -> jit_jit_BNE(jit_stride, operand1, operand2)
    [] opcode = \hd8 -> jit_jit_CLD(jit_stride, operand1, operand2)
    [] opcode = \he0 -> jit_jit_CPX_imm(jit_stride, operand1, operand2)
    [] opcode = \he8 -> jit_jit_INX(jit_stride, operand1, operand2)
    [] opcode = \hf0 -> jit_jit_BEQ(jit_stride, operand1, operand2)
    [] OTHER -> jit_jit_default(opcode, jit_offset)


(***************************************************************************)
(* The arena, as the bytes at each offset from p_jit.  jit.fill_stride and *)
(* jit.fill_bytes record jit_init's fill (fill_bytes = 0 before it ran: the *)
(* fresh mapping reads as zero).  jit.slots maps the arena offset at which  *)
(* jit_jit started writing a slot to the bytes it wrote there.  jit_jit     *)
(* with stride jit.stride over the guest range [jit.lo, jit.hi) also wrote  *)
(* the slots whose source bytes were all zero; these are not stored: each   *)
(* holds jit_jit's output for opcode 0x00.                                  *)
(***************************************************************************)
\* jit_init that puts ud2 in the last two bytes of each slot.
jit_init_byte_tail(off, jit_stride) ==
  IF off % jit_stride = jit_stride - 2 THEN \h0f
  ELSE IF off % jit_stride = jit_stride - 1 THEN \h0b ELSE \h90

\* jit_init: memset 0x90 (nop), then ud2 in the first two bytes of each slot.
jit_init_byte(off, jit_stride) ==
  IF off % jit_stride = 0 THEN \h0f ELSE IF off % jit_stride = 1 THEN \h0b ELSE \h90

\* The stored writes that cover arena offset off; jit_jit writes in ascending
\* order, so the one that started last is the one that remains.
Covering(off) ==
  {k \in DOMAIN jit.slots : k <= off /\ off < k + Len(jit.slots[k])}

MaxOf(S) == CHOOSE x \in S : \A y \in S : y <= x

ArenaByte(off) ==
  LET cov == Covering(off)
      G == IF jit.stride = 0 THEN 0 ELSE off \div jit.stride
      i == IF jit.stride = 0 THEN 0 ELSE off % jit.stride
  IN  IF cov # {}
      THEN LET k == MaxOf(cov) IN jit.slots[k][(off - k) + 1]
      ELSE IF jit.stride # 0 /\ G >= jit.lo /\ G < jit.hi /\ i < 5
              /\ (G * jit.stride) \notin DOMAIN jit.slots
           THEN jit_jit_default(0, G)[i + 1]
           ELSE IF off < jit.fill_bytes * jit.fill_stride
                THEN jit_init_byte(off, jit.fill_stride)
                ELSE 0

\* Host address of the slot of guest address G: arena_base + G * S.
SlotAddr(G) == p_mem + p_jit_offset + (G * k_jit_bytes_per_byte)

\* The byte at host address a when fetched as code: -1 outside the arena, the
\* only mapping main makes executable.
HostByte(a) ==
  LET off == a - (p_mem + p_jit_offset)
  IN  IF off >= 0 /\ off < k_addr_space_size * k_jit_bytes_per_byte
      THEN ArenaByte(off)
      ELSE -1

(***************************************************************************)
(* The host CPU, for the instructions the translator emits.  A machine     *)
(* state s has the registers s.r (by their x86-64 number), s.rip, the      *)
(* flags s.cf, s.zf, s.sf (FlagUndef where the architecture leaves a flag  *)
(* undefined), the host stack s.stk, guest memory s.mem and s.st, "ok"     *)
(* while it runs.  s.below holds the words under the host stack pointer     *)
(* that a push wrote and a pop left behind, nearest first.  All values stay *)
(* below 2^31; a result outside that range stops the machine with st =      *)
(* "range".                                                                 *)
(***************************************************************************)
RAX == 0
RCX == 1
RDX == 2
RBX == 3
RSI == 6
RDI == 7
R8 == 8
FlagUndef == 2
MaxHostInt == (2 ^ 30) + ((2 ^ 30) - 1)

RECURSIVE BitAnd(_, _)
BitAnd(a, b) ==
  IF a = 0 \/ b = 0 THEN 0
  ELSE ((a % 2) * (b % 2)) + 2 * BitAnd(a \div 2, b \div 2)

BitOr(a, b) == (a + b) - BitAnd(a, b)

Bit(v, n) == (v \div (2 ^ n)) % 2

Imm8s(b) == IF b >= 128 THEN b - 256 ELSE b

Fetch(s, k) == HostByte(s.rip + k)

Imm16(s, k) == Fetch(s, k) + (256 * Fetch(s, k + 1))

Imm32s(s, k) ==
  Fetch(s, k) + (256 * Fetch(s, k + 1)) + (65536 * Fetch(s, k + 2))
    + (16777216 * Imm8s(Fetch(s, k + 3)))

Fault(s, why) == [s EXCEPT !.st = why]

Wrap(v, size) ==
  IF size = 8 THEN v % 256 ELSE IF size = 16 THEN v % 65536 ELSE v

\* An 8-bit register: without a REX prefix codes 4..7 are ah, ch, dh, bh.
Get8(s, rexp, n) ==
  IF ~rexp /\ n >= 4 /\ n <= 7 THEN (s.r[n - 4] \div 256) % 256 ELSE s.r[n] % 256

Set8(s, rexp, n, v) ==
  IF ~rexp /\ n >= 4 /\ n <= 7
  THEN LET old == s.r[n - 4]
       IN  [s EXCEPT !.r[n - 4] = (old - (((old \div 256) % 256) * 256)) + (v * 256)]
  ELSE [s EXCEPT !.r[n] = (s.r[n] - (s.r[n] % 256)) + v]

GetOp(s, size, rexp, n) ==
  IF size = 8 THEN Get8(s, rexp, n)
  ELSE IF size = 16 THEN s.r[n] % 65536 ELSE s.r[n]

\* A 16-bit write keeps the upper bits; a 32-bit write zero-extends.
SetOp(s, size, rexp, n, v) ==
  IF v < 0 \/ v > MaxHostInt THEN Fault(s, "range")
  ELSE IF size = 8 THEN Set8(s, rexp, n, v)
  ELSE IF size = 16 THEN [s EXCEPT !.r[n] = (s.r[n] - (s.r[n] % 65536)) + v]
  ELSE [s EXCEPT !.r[n] = v]

\* A data read of one byte: guest memory, or the arena; -1 when unmapped.
Load8(s, ea) ==
  LET ga == ea - p_mem
  IN  IF ga >= 0 /\ ga < k_addr_space_size THEN MemRead(s.mem, ga) ELSE HostByte(ea)

Store8(s, ea, v) ==
  LET ga == ea - p_mem
  IN  IF ga >= 0 /\ ga < k_addr_space_size
      THEN [s EXCEPT !.mem = MemWrite(s.mem, ga, v)]
      ELSE IF HostByte(ea) # -1 THEN Fault(s, "arena_store") ELSE Fault(s, "segv")

\* ModRM, SIB and displacement at offset p; immlen bytes of immediate follow.
\* b is the ModRM byte, sib the SIB byte (0 without one), q the offset of the
\* displacement and disp its value.
ModRM_ea(s, immlen, B, X, b, hasSib, sib, noBase, next, disp) ==
  IF (b \div 64) = 0 /\ ~hasSib /\ b % 8 = 5
  THEN s.rip + next + disp
  ELSE (IF noBase THEN 0
        ELSE IF hasSib THEN s.r[(sib % 8) + (8 * B)] ELSE s.r[(b % 8) + (8 * B)])
       + (IF hasSib /\ ((sib \div 8) % 8) + (8 * X) # 4
          THEN (2 ^ (sib \div 64)) * s.r[((sib \div 8) % 8) + (8 * X)]
          ELSE 0)
       + disp

ModRM_disp(s, immlen, R, X, B, b, hasSib, sib, q, noBase, dlen) ==
  [isreg |-> (b \div 64) = 3,
   reg |-> ((b \div 8) % 8) + (8 * R),
   digit |-> (b \div 8) % 8,
   rm |-> (b % 8) + (8 * B),
   ea |-> ModRM_ea(s, immlen, B, X, b, hasSib, sib, noBase, q + dlen + immlen,
                   IF dlen = 1 THEN Imm8s(Fetch(s, q))
                   ELSE IF dlen = 4 THEN Imm32s(s, q) ELSE 0),
   imm |-> q + dlen,
   next |-> q + dlen + immlen]

ModRM_sib(s, immlen, R, X, B, b, hasSib, sib, q) ==
  ModRM_disp(s, immlen, R, X, B, b, hasSib, sib, q,
             (b \div 64) = 0 /\ ((hasSib /\ sib % 8 = 5) \/ (~hasSib /\ b % 8 = 5)),
             IF (b \div 64) = 1 THEN 1
             ELSE IF (b \div 64) = 2
                     \/ ((b \div 64) = 0 /\ ((hasSib /\ sib % 8 = 5) \/ (~hasSib /\ b % 8 = 5)))
                  THEN 4
                  ELSE 0)

ModRM_byte(s, p, immlen, R, X, B, b) ==
  ModRM_sib(s, immlen, R, X, B, b,
            (b \div 64) # 3 /\ b % 8 = 4,
            IF (b \div 64) # 3 /\ b % 8 = 4 THEN Fetch(s, p + 1) ELSE 0,
            p + 1 + (IF (b \div 64) # 3 /\ b % 8 = 4 THEN 1 ELSE 0))

ModRM(s, p, immlen, R, X, B) == ModRM_byte(s, p, immlen, R, X, B, Fetch(s, p))

RMRead(s, m, size, rexp) ==
  IF m.isreg THEN GetOp(s, size, rexp, m.rm)
  ELSE IF size = 8 THEN Load8(s, m.ea) ELSE -1

RMWrite(s, m, size, rexp, v) ==
  IF m.isreg THEN SetOp(s, size, rexp, m.rm, v)
  ELSE IF size = 8 THEN Store8(s, m.ea, v) ELSE Fault(s, "unmodelled")

Adv(s, n) == IF s.st = "ok" THEN [s EXCEPT !.rip = s.rip + n] ELSE s

ZS(s, res, size) ==
  [s EXCEPT !.zf = IF res = 0 THEN 1 ELSE 0,
            !.sf = IF size = 8 THEN res \div 128
                   ELSE IF size = 16 THEN res \div 32768 ELSE 0]

\* add, or, and, sub: result and carry.
AluRes(op, a, b, size) ==
  LET raw == CASE op = 0 -> a + b
               [] op = 1 -> BitOr(a, b)
               [] op = 4 -> BitAnd(a, b)
               [] op = 5 -> a - b
  IN  [res |-> Wrap(raw, size),
       cf |-> IF op = 0 THEN (IF size <= 16 /\ raw >= 2 ^ size THEN 1 ELSE 0)
              ELSE IF op = 5 THEN (IF raw < 0 THEN 1 ELSE 0) ELSE 0]

\* dst := dst op src with CF, ZF, SF; test (write = FALSE) discards the result.
X_alu_res(s, m, size, rexp, x, toReg, write) ==
  Adv(IF ~write THEN ZS([s EXCEPT !.cf = x.cf], x.res, size)
      ELSE IF toReg THEN SetOp(ZS([s EXCEPT !.cf = x.cf], x.res, size), size, rexp, m.reg, x.res)
      ELSE RMWrite(ZS([s EXCEPT !.cf = x.cf], x.res, size), m, size, rexp, x.res),
      m.next)

X_alu(s, m, size, rexp, op, a, b, toReg, write) ==
  IF a = -1 \/ b = -1 THEN Fault(s, "segv")
  ELSE IF op \notin {0, 1, 4, 5} THEN Fault(s, "unmodelled")
  ELSE X_alu_res(s, m, size, rexp, AluRes(op, a, b, size), toReg, write)

\* Condition codes of jcc and setcc: 2 b, 3 ae, 4 e, 5 ne, 8 s, 9 ns.
Cond(s, cc) ==
  LET f == CASE cc \in {2, 3} -> s.cf
             [] cc \in {4, 5} -> s.zf
             [] cc \in {8, 9} -> s.sf
             [] OTHER -> FlagUndef
  IN  IF f = FlagUndef THEN FlagUndef
      ELSE IF cc % 2 = 0 THEN f ELSE 1 - f

X_jcc(s, cc, len, disp) ==
  LET c == Cond(s, cc)
  IN  IF c = FlagUndef THEN Fault(s, "undef")
      ELSE IF c = 1 THEN Adv(s, len + disp) ELSE Adv(s, len)

X_setcc(s, m, rexp, cc) ==
  LET c == Cond(s, cc)
  IN  IF c = FlagUndef THEN Fault(s, "undef")
      ELSE Adv(RMWrite(s, m, 8, rexp, c), m.next)

\* shl (4), shr (5) by count; rcl (2), rcr (3) by one.  rcl and rcr change CF
\* only; shl and shr set CF to the last bit shifted out and ZF, SF by the result.
X_shift_by(s, m, size, rexp, a, n, bits) ==
  IF a = -1 THEN Fault(s, "segv")
  ELSE IF n = 0 THEN Adv(s, m.next)
  ELSE IF m.digit = 4 /\ n <= bits
  THEN IF a * (2 ^ n) > MaxHostInt THEN Fault(s, "range")
       ELSE Adv(RMWrite(ZS([s EXCEPT !.cf = IF size - n <= 30 THEN Bit(a, size - n) ELSE 0],
                           Wrap(a * (2 ^ n), size), size),
                        m, size, rexp, Wrap(a * (2 ^ n), size)), m.next)
  ELSE IF m.digit = 5 /\ n <= bits
  THEN Adv(RMWrite(ZS([s EXCEPT !.cf = Bit(a, n - 1)], a \div (2 ^ n), size),
                   m, size, rexp, a \div (2 ^ n)), m.next)
  ELSE IF m.digit = 2 /\ n = 1 /\ size = 8 /\ s.cf # FlagUndef
  THEN Adv(RMWrite([s EXCEPT !.cf = a \div 128], m, 8, rexp, ((a * 2) % 256) + s.cf), m.next)
  ELSE IF m.digit = 3 /\ n = 1 /\ size = 8 /\ s.cf # FlagUndef
  THEN Adv(RMWrite([s EXCEPT !.cf = a % 2], m, 8, rexp, (a \div 2) + (128 * s.cf)), m.next)
  ELSE Fault(s, "unmodelled")

X_shift(s, m, size, rexp, count) ==
  X_shift_by(s, m, size, rexp, RMRead(s, m, size, rexp),
             count % (IF size = 64 THEN 64 ELSE 32),
             IF size = 8 THEN 8 ELSE IF size = 16 THEN 16 ELSE 31)

\* inc (0) and dec (1): CF is unchanged.
X_incdec_of(s, m, size, rexp, a, res) ==
  IF a = -1 THEN Fault(s, "segv")
  ELSE Adv(RMWrite(ZS(s, res, size), m, size, rexp, res), m.next)

X_incdec(s, m, size, rexp) ==
  X_incdec_of(s, m, size, rexp, RMRead(s, m, size, rexp),
              Wrap(IF m.digit = 0 THEN RMRead(s, m, size, rexp) + 1
                   ELSE RMRead(s, m, size, rexp) - 1, size))

\* bt (4), bts (5), btr (6) with an immediate bit number: CF is the bit, ZF is
\* unchanged, SF is undefined.
X_bt_of(s, m, size, rexp, a, k, f) ==
  IF a = -1 \/ k > 30 THEN Fault(s, "unmodelled")
  ELSE IF m.digit = 4 THEN Adv(f, m.next)
  ELSE IF m.digit = 5
  THEN Adv(RMWrite(f, m, size, rexp, a + ((1 - Bit(a, k)) * (2 ^ k))), m.next)
  ELSE IF m.digit = 6 THEN Adv(RMWrite(f, m, size, rexp, a - (Bit(a, k) * (2 ^ k))), m.next)
  ELSE Fault(s, "unmodelled")

X_bt(s, m, size, rexp, n) ==
  X_bt_of(s, m, size, rexp, RMRead(s, m, size, rexp), n % size,
          [s EXCEPT !.cf = Bit(RMRead(s, m, size, rexp), n % size), !.sf = FlagUndef])

X_mov_load_of(s, m, size, rexp, v) ==
  IF v = -1 THEN Fault(s, "segv") ELSE Adv(SetOp(s, size, rexp, m.reg, v), m.next)

X_mov_load(s, m, size, rexp) == X_mov_load_of(s, m, size, rexp, RMRead(s, m, size, rexp))

X_mov_store(s, m, size, rexp) ==
  Adv(RMWrite(s, m, size, rexp, GetOp(s, size, rexp, m.reg)), m.next)

X_lea(s, m, size) ==
  IF m.isreg THEN Fault(s, "sigill") ELSE Adv(SetOp(s, size, FALSE, m.reg, m.ea), m.next)

X_push(s, n, len) ==
  Adv([s EXCEPT !.stk = Append(s.stk, s.r[n]),
                !.below = IF s.below = <<>> THEN <<>> ELSE Tail(s.below)], len)

X_pop(s, n, len) ==
  IF s.stk = <<>> THEN Fault(s, "stack")
  ELSE Adv([s EXCEPT !.r[n] = s.stk[Len(s.stk)], !.stk = SubSeq(s.stk, 1, Len(s.stk) - 1),
                     !.below = <<s.stk[Len(s.stk)]>> \o s.below], len)

\* Prefixes and opcode of the instruction at s.rip: an optional 0x66, an
\* optional REX byte b1 at p1, then the opcode at p2 (two bytes after 0x0f);
\* pm is the offset of what follows the opcode.
Decode_op(s, has66, rexp, rex, p2, op) ==
  [b0 |-> Fetch(s, 0), rexp |-> rexp,
   R |-> (rex \div 4) % 2, X |-> (rex \div 2) % 2, B |-> rex % 2,
   op |-> op, two |-> op = \h0f, op2 |-> Fetch(s, p2 + 1),
   pm |-> p2 + (IF op = \h0f THEN 2 ELSE 1),
   size |-> IF (rex \div 8) % 2 = 1 THEN 64 ELSE IF has66 THEN 16 ELSE 32,
   isz |-> IF (rex \div 8) % 2 # 1 /\ has66 THEN 2 ELSE 4]

Decode_rex(s, has66, p1, b1) ==
  Decode_op(s, has66, b1 >= \h40 /\ b1 <= \h4f,
            IF b1 >= \h40 /\ b1 <= \h4f THEN b1 % 16 ELSE 0,
            p1 + (IF b1 >= \h40 /\ b1 <= \h4f THEN 1 ELSE 0),
            Fetch(s, p1 + (IF b1 >= \h40 /\ b1 <= \h4f THEN 1 ELSE 0)))

Decode_66(s, has66, p1) == Decode_rex(s, has66, p1, Fetch(s, p1))

Decode(s) == Decode_66(s, Fetch(s, 0) = \h66, IF Fetch(s, 0) = \h66 THEN 1 ELSE 0)

\* The instruction decoded as d, with its ModRM operand read for no
\* immediate (m0), a one-byte immediate (m1) and a full-size immediate (mz).
Exec(s, d, m0, m1, mz) ==
  CASE d.b0 = -1 -> Fault(s, "segv")
    [] d.two /\ d.op2 = \h0b -> Fault(s, "sigill")
    [] d.two /\ d.op2 \in \h90..\h9f -> X_setcc(s, m0, d.rexp, d.op2 - \h90)
    [] d.two /\ d.op2 \in \h80..\h8f -> X_jcc(s, d.op2 - \h80, d.pm + 4, Imm32s(s, d.pm))
    [] d.two /\ d.op2 = \hba -> X_bt(s, m1, d.size, d.rexp, Fetch(s, m1.imm))
    [] d.two -> Fault(s, "unmodelled")
    [] d.op = \h90 -> Adv(s, d.pm)
    [] d.op \in \h50..\h57 -> X_push(s, (d.op - \h50) + (8 * d.B), d.pm)
    [] d.op \in \h58..\h5f -> X_pop(s, (d.op - \h58) + (8 * d.B), d.pm)
    [] d.op = \heb -> Adv(s, d.pm + 1 + Imm8s(Fetch(s, d.pm)))
    [] d.op = \he9 -> Adv(s, d.pm + 4 + Imm32s(s, d.pm))
    [] d.op \in \h70..\h7f -> X_jcc(s, d.op - \h70, d.pm + 1, Imm8s(Fetch(s, d.pm)))
    [] d.op = \h84 -> X_alu(s, m0, 8, d.rexp, 4, RMRead(s, m0, 8, d.rexp), Get8(s, d.rexp, m0.reg), FALSE, FALSE)
    [] d.op = \hf6 /\ m1.digit = 0 -> X_alu(s, m1, 8, d.rexp, 4, RMRead(s, m1, 8, d.rexp), Fetch(s, m1.imm), FALSE, FALSE)
    [] d.op = \h88 -> X_mov_store(s, m0, 8, d.rexp)
    [] d.op = \h8a -> X_mov_load(s, m0, 8, d.rexp)
    [] d.op = \h89 -> X_mov_store(s, m0, d.size, d.rexp)
    [] d.op = \h8d -> X_lea(s, m0, d.size)
    [] d.op \in {\h00, \h08, \h20, \h28} -> X_alu(s, m0, 8, d.rexp, d.op \div 8, RMRead(s, m0, 8, d.rexp), Get8(s, d.rexp, m0.reg), FALSE, TRUE)
    [] d.op \in {\h01, \h09, \h21, \h29} -> X_alu(s, m0, d.size, d.rexp, d.op \div 8, RMRead(s, m0, d.size, d.rexp), GetOp(s, d.size, d.rexp, m0.reg), FALSE, TRUE)
    [] d.op \in {\h02, \h0a, \h22, \h2a} -> X_alu(s, m0, 8, d.rexp, d.op \div 8, Get8(s, d.rexp, m0.reg), RMRead(s, m0, 8, d.rexp), TRUE, TRUE)
    [] d.op \in {\h04, \h0c, \h24, \h2c} -> X_alu(s, [reg |-> RAX, next |-> d.pm + 1], 8, d.rexp, d.op \div 8, Get8(s, d.rexp, RAX), Fetch(s, d.pm), TRUE, TRUE)
    [] d.op = \h80 -> X_alu(s, m1, 8, d.rexp, m1.digit, RMRead(s, m1, 8, d.rexp), Fetch(s, m1.imm), FALSE, TRUE)
    [] d.op = \h81 -> X_alu(s, mz, d.size, d.rexp, mz.digit, RMRead(s, mz, d.size, d.rexp), IF d.size = 16 THEN Imm16(s, mz.imm) ELSE Imm32s(s, mz.imm), FALSE, TRUE)
    [] d.op = \h83 /\ Fetch(s, m1.imm) < 128 -> X_alu(s, m1, d.size, d.rexp, m1.digit, RMRead(s, m1, d.size, d.rexp), Fetch(s, m1.imm), FALSE, TRUE)
    [] d.op \in \hb0..\hb7 -> Adv(Set8(s, d.rexp, (d.op - \hb0) + (8 * d.B), Fetch(s, d.pm)), d.pm + 1)
    [] d.op = \hc1 -> X_shift(s, m1, d.size, d.rexp, Fetch(s, m1.imm))
    [] d.op = \hd1 -> X_shift(s, m0, d.size, d.rexp, 1)
    [] d.op = \hd0 -> X_shift(s, m0, 8, d.rexp, 1)
    [] d.op = \hfe /\ m0.digit \in {0, 1} -> X_incdec(s, m0, 8, d.rexp)
    [] d.op = \hff /\ m0.digit \in {0, 1} -> X_incdec(s, m0, d.size, d.rexp)
    [] d.op = \hff /\ m0.digit = 4 /\ m0.isreg -> [s EXCEPT !.rip = s.r[m0.rm]]
    [] OTHER -> Fault(s, "unmodelled")

\* One host instruction at s.rip.
Step_decoded(s, d) ==
  Exec(s, d, ModRM(s, d.pm, 0, d.R, d.X, d.B), ModRM(s, d.pm, 1, d.R, d.X, d.B),
       ModRM(s, d.pm, d.isz, d.R, d.X, d.B))

Step(s) == Step_decoded(s, Decode(s))

\* Runs host instructions from the start of a slot until control leaves the
\* slot, re-enters it at its first byte, or the machine stops.  A slot holds
\* at most k_jit_bytes_per_byte instructions, which bounds the run.
RECURSIVE Run(_, _, _)

\* t is the machine after one more instruction of the slot.
Run_next(t, slot, fuel) ==
  IF t.st # "ok" THEN t
  ELSE IF t.rip = slot \/ t.rip < slot \/ t.rip >= slot + k_jit_bytes_per_byte
       THEN t
       ELSE Run(t, slot, fuel - 1)

Run(s, slot, fuel) ==
  IF s.st # "ok" THEN s
  ELSE IF fuel = 0 THEN Fault(s, "hang")
  ELSE Run_next(Step(s), slot, fuel)



(***************************************************************************)
(* jit_init, jit_jit and jit_enter.                                        *)
(***************************************************************************)
jit_init(j, jit_stride, num_bytes) ==
  [j EXCEPT !.fill_stride = jit_stride, !.fill_bytes = num_bytes]

\* p_mem[k] for k = 1, 2 is read only below jit_end; the operand is 0 otherwise.
jit_jit_operand(m, jit_offset, jit_end, k) ==
  IF jit_offset + k < jit_end THEN MemRead(m, jit_offset + k) ELSE 0

\* One iteration of jit_jit's loop: the bytes written for guest address G.
jit_jit_code(m, jit_stride, G, jit_end) ==
  jit_jit_case(MemRead(m, G), jit_stride, G,
               jit_jit_operand(m, G, jit_end, 1), jit_jit_operand(m, G, jit_end, 2))

\* Where the loop writes the code of guest address G: p_jit advances by
\* jit_stride from jit_offset * jit_stride.
jit_jit_where(jit_stride, G) == G * jit_stride

jit_jit(j, m, jit_stride, jit_offset, jit_len) ==
  LET jit_end == jit_offset + jit_len
      src == {g \in {a - k : a \in DOMAIN m, k \in 0..2} : g >= jit_offset /\ g < jit_end}
      new == [off \in {jit_jit_where(jit_stride, g) : g \in src} |->
                jit_jit_code(m, jit_stride,
                             CHOOSE g \in src : jit_jit_where(jit_stride, g) = off, jit_end)]
  IN  [j EXCEPT !.stride = jit_stride, !.lo = jit_offset, !.hi = jit_end, !.slots = new]

\* The case labels of jit_jit's switch.
Implemented ==
  {\h08, \h09, \h0a, \h10, \h20, \h24, \h26, \h28, \h29, \h38, \h48, \h4a, \h4c, \h50,
   \h58, \h60, \h66, \h68, \h6a, \h78, \h85, \h88, \h8a, \h8c, \h8d, \h8e, \h90, \h95,
   \h99, \h9a, \h9d, \ha0, \ha2, \ha9, \haa, \hac, \had, \hae, \hb0, \hb9, \hc9, \hca,
   \hcd, \hd0, \hd8, \he0, \he8, \hf0}

\* The value of index at the end of an iteration of jit_jit's loop.  Every
\* case but JMP, JSR, RTS and the default ends in a call of
\* jit_emit_do_jmp_next whose result is discarded, so index does not count
\* the trailing jump: 2 bytes (0xeb, offset) or 5 (0xe9 and an offset below
\* 256, whose third byte is 0).
jit_jit_index(opcode, code) ==
  IF opcode \in Implemented \ {\h20, \h4c, \h60} /\ Len(code) >= 2
  THEN IF code[Len(code) - 1] = \heb THEN Len(code) - 2 ELSE Len(code) - 5
  ELSE Len(code)

\* No assert of the emitters failed while code was written.
jit_emit_asserts(code) == \A i \in 1..Len(code) : code[i] # AssertFailed

\* assert(index + ... <= jit_stride) in the emitters and assert(index <=
\* k_jit_bytes_per_byte) at the end of each iteration, for the slots jit_jit
\* wrote from guest memory m.
jit_jit_asserts(j, m) ==
  \A k \in DOMAIN j.slots :
    /\ jit_emit_asserts(j.slots[k])
    /\ jit_jit_index(MemRead(m, k \div j.stride), j.slots[k]) <= k_jit_bytes_per_byte

\* Every byte jit_jit wrote is inside the arena; the page after the arena is
\* a guard page (PROT_NONE), so a write past the end raises SIGSEGV.
jit_jit_in_arena(j) ==
  \A k \in DOMAIN j.slots :
    k + Len(j.slots[k]) <= k_addr_space_size * k_jit_bytes_per_byte

\* Return address that "call *%rsi" pushes on the host stack.
HostReturn == 1

\* Registers jit_enter does not set hold whatever the caller left in them.
HostGarbage == {0, 23130}

jit_enter_addr(m, vector_addr) ==
  (MemRead(m, vector_addr + 1) * 256) + MemRead(m, vector_addr)

\* jit_enter without "bts $4, %r8": the B bit starts clear.
jit_enter_no_B(m, jit_stride, vector_addr, junk) ==
  LET addr == jit_enter_addr(m, vector_addr)
      p_entry == p_mem + p_jit_offset + (addr * jit_stride)
  IN  [r |-> [n \in 0..15 |->
               CASE n = RAX -> 0
                 [] n = RBX -> 0
                 [] n = RCX -> 256
                 [] n = RDX -> 0
                 [] n = R8 -> 32
                 [] n = RDI -> p_mem
                 [] n = RSI -> p_entry
                 [] OTHER -> junk],
       rip |-> p_entry, cf |-> FlagUndef, zf |-> FlagUndef, sf |-> FlagUndef,
       stk |-> <<HostReturn>>, below |-> <<>>, st |-> "ok"]

\* jit_enter with "mov $0x000001ff, %ecx": S starts at 0xFF.
jit_enter_S_ff(m, jit_stride, vector_addr, junk) ==
  LET addr == jit_enter_addr(m, vector_addr)
      p_entry == p_mem + p_jit_offset + (addr * jit_stride)
  IN  [r |-> [n \in 0..15 |->
               CASE n = RAX -> 0
                 [] n = RBX -> 0
                 [] n = RCX -> 511
                 [] n = RDX -> 0
                 [] n = R8 -> 48
                 [] n = RDI -> p_mem
                 [] n = RSI -> p_entry
                 [] OTHER -> junk],
       rip |-> p_entry, cf |-> FlagUndef, zf |-> FlagUndef, sf |-> FlagUndef,
       stk |-> <<HostReturn>>, below |-> <<>>, st |-> "ok"]

jit_enter(m, jit_stride, vector_addr, junk) ==
  LET addr == jit_enter_addr(m, vector_addr)
      p_entry == p_mem + p_jit_offset + (addr * jit_stride)
  IN  [r |-> [n \in 0..15 |->
               CASE n = RAX -> 0
                 [] n = RBX -> 0
                 [] n = RCX -> 256
                 [] n = RDX -> 0
                 [] n = R8 -> 48
                 [] n = RDI -> p_mem
                 [] n = RSI -> p_entry
                 [] OTHER -> junk],
       rip |-> p_entry, cf |-> FlagUndef, zf |-> FlagUndef, sf |-> FlagUndef,
       stk |-> <<HostReturn>>, below |-> <<>>, st |-> "ok"]

(***************************************************************************)
(* Guest state as the register convention of jit_enter defines it, read    *)
(* from a host register file c.                                            *)
(***************************************************************************)
A_of(c) == c.r[RAX] % 256
C_of(c) == (c.r[RAX] \div 256) % 256
X_of(c) == c.r[RBX] % 256
Y_of(c) == (c.r[RBX] \div 256) % 256
S_of(c) == c.r[RCX] % 256
Z_of(c) == c.r[RDX] % 256
N_of(c) == (c.r[RDX] \div 256) % 256
P_of(c) == c.r[R8]

\* The guest address whose slot contains host address a.
GuestOf(a) == (a - (p_mem + p_jit_offset)) \div k_jit_bytes_per_byte

AtSlot(a) ==
  /\ a >= SlotAddr(0)
  /\ a < SlotAddr(k_addr_space_size)
  /\ (a - SlotAddr(0)) % k_jit_bytes_per_byte = 0

PC_of(c) == GuestOf(c.rip)

(***************************************************************************)
(* ROM images: what main reads from os12.rom into 0xC000..0xFFFF.  An image *)
(* is a register set-up followed by the instructions under study, placed at *)
(* an origin the reset vector points to; the rest of the ROM is zero.       *)
(***************************************************************************)
Place(org, bytes) == [a \in org..(org + Len(bytes) - 1) |-> bytes[(a - org) + 1]]

Vector(org) == (k_vector_reset :> (org % 256)) @@ ((k_vector_reset + 1) :> (org \div 256))

Lo(a) == a % 256
Hi(a) == (a \div 256) % 256

Origins == {\hc000, \hc0fb}

\* Set-ups: power-on state; S = 0xFF; Z = C = 1; S = 1; P pulled as 0xC3
\* (C = Z = N = V = 1, B = U = 0); N = 1 with I set.
Preludes ==
  { <<>>,
    <<\ha2, \hff, \h9a>>,
    <<\ha9, \h00, \h38>>,
    <<\ha2, \h01, \h9a>>,
    <<\ha9, \hc3, \h48, \h28>>,
    <<\ha0, \h80, \h78>> }

BranchOps == {\h10, \h30, \h50, \h70, \h90, \hb0, \hd0, \hf0}

BranchDisps == {\h00, \h03, \h7f, \h80, \hfd, \hfe}

\* Bodies at guest address `at`: fragments <<address, bytes>>.  Branches with
\* each displacement; BNE with displacements -127 and -126; JSR to an RTS; JMP abs; PHP PLP; PHA PLA; PLA; RTS; an RTS
\* to the pushed address 0xFFFF; and
\* stores that overwrite the opcode, the first or the second operand byte of
\* the instruction that follows them.
Bodies(at) ==
  { << <<at, <<op, d>> >> >> : op \in BranchOps, d \in BranchDisps }
  \cup { << <<at, <<\hd0, d>> >> >> : d \in {\h81, \h82} }
  \cup { << <<at, <<\h20, \h20, \hc1>> >>, <<\hc120, <<\h60>> >> >>,
         << <<at, <<\h4c, \h00, \hc0>> >> >>,
         << <<at, <<\h4c, \hff, \hff>> >> >>,
         << <<at, <<\h08, \h28>> >> >>,
         << <<at, <<\h48, \h68>> >> >>,
         << <<at, <<\h68>> >> >>,
         << <<at, <<\h60>> >> >>,
         << <<at, <<\ha9, \hff, \h48, \h48, \h60>> >> >>,
         << <<at, <<\ha9, \he8, \h8d, Lo(at + 5), Hi(at + 5), \h8a>> >> >>,
         << <<at, <<\ha0, \h55, \h8c, Lo(at + 6), Hi(at + 6), \ha2, \h11>> >> >>,
         << <<at, <<\ha2, \hc1, \h8e, Lo(at + 7), Hi(at + 7), \had, \h00, \hc0>> >> >> }

RECURSIVE Fragments(_)
Fragments(frags) ==
  IF frags = <<>> THEN <<>>
  ELSE Place(Head(frags)[1], Head(frags)[2]) @@ Fragments(Tail(frags))

Image(org, prelude, body) == Place(org, prelude) @@ Fragments(body) @@ Vector(org)

\* A page holding every opcode value once (the byte at address a is a mod 256),
\* entered where the reset vector points.
OpcodePage(page, entry) == [a \in (page * 256)..((page * 256) + 255) |-> a % 256] @@ Vector(entry)

\* Shifts and rotates of each value with C clear and C set: the value goes to
\* A and to zero-page 0x10, SEC sets C, then the instruction runs.
ShiftVals == {\h00, \h01, \h02, \h40, \h7f, \h80, \h81, \hff}

ShiftOps == {<<\h0a>>, <<\h4a>>, <<\h6a>>, <<\h26, \h10>>, <<\h66, \h10>>}

ShiftImages ==
  {Image(\hc000, <<\ha9, v, \h85, \h10>> \o c, << <<\hc004 + Len(c), op>> >>) :
     v \in ShiftVals, c \in {<<>>, <<\h38>>}, op \in ShiftOps}

\* BIT zp of each memory byte with each accumulator, C clear or set and V
\* clear; and with V set by an earlier BIT of 0x40.
BitVals == {\h00, \h01, \h40, \h80, \hc0, \hff}

BitImages ==
  {Image(\hc000, <<\ha9, m, \h85, zp, \ha9, a>> \o c, << <<\hc006 + Len(c), <<\h24, zp>> >> >>) :
     m \in BitVals, a \in {\h00, \h01, \hc0, \hff}, c \in {<<>>, <<\h38>>}, zp \in {\h10, \hff}}
  \cup {Image(\hc000, <<\ha9, m, \h85, \h10, \ha9, \h40, \h85, \h11, \h24, \h11>>,
               << <<\hc00a, <<\h24, \h10>> >> >>) : m \in BitVals}

\* STA zp,X with each X, Y and operand byte.
StaZpXImages ==
  {Image(\hc000, <<\ha2, x, \ha0, y, \ha9, \h5a>>, << <<\hc006, <<\h95, z>> >> >>) :
     x \in {\h00, \h05, \hff}, y \in {\h00, \h01, \hff}, z \in {\h00, \hfd, \hff}}

\* JSR $C00A; BRK at 0xC000 and RTS at 0xC00A, entered at 0xC000.
CallImage ==
  Image(\hc000, <<>>, << <<\hc000, <<\h20, \h0a, \hc0, \h00>> >>, <<\hc00a, <<\h60>> >> >>)

\* LDA #$42; STA $2000; BRK at 0xC000, entered at 0xC000.
StoreImage ==
  Image(\hc000, <<>>, << <<\hc000, <<\ha9, \h42, \h8d, \h00, \h20, \h00>> >> >>)

\* Loads of each value v into A, X or Y: a set-up that leaves Z and N as the
\* other value w would (and C clear or set), then the load; v is also the
\* data byte at 0xC0F0 that the absolute loads read.
LoadVals == {\h00, \h01, \h7f, \h80, \hff}

LoadCases(v, w) ==
  { << <<\ha2, w>>, <<\ha9, v>> >>,
    << <<\ha9, w>>, <<\ha2, v>> >>,
    << <<\ha9, w>>, <<\ha0, v>> >>,
    << <<\ha2, w>>, <<\had, \hf0, \hc0>> >>,
    << <<\ha9, w>>, <<\hae, \hf0, \hc0>> >>,
    << <<\ha9, w>>, <<\hac, \hf0, \hc0>> >>,
    << <<\ha0, \h05, \ha2, w>>, <<\hb9, \heb, \hc0>> >>,
    << <<\ha9, v, \h48, \ha2, w>>, <<\h68>> >>,
    << <<\ha9, v, \ha0, w>>, <<\haa>> >>,
    << <<\ha2, v, \ha0, w>>, <<\h8a>> >> }

LoadImages ==
  UNION {{Image(\hc000, k[1] \o c,
                << <<\hc000 + Len(k[1]) + Len(c), k[2]>>, <<\hc0f0, <<v>> >> >>) :
            k \in LoadCases(v, IF v = 0 THEN \h80 ELSE 0), c \in {<<>>, <<\h38>>}} :
         v \in LoadVals}

\* Absolute indexed stores and loads at the ends of guest memory: STA abs,X,
\* STA abs,Y and LDA abs,Y with X = Y = x and each base address.
IndexedImages ==
  {Image(\hc000, <<\ha2, x, \ha0, x, \ha9, \h5a>>, << <<\hc006, <<op, Lo(base), Hi(base)>> >> >>) :
     x \in {\h00, \h01, \hff}, base \in {\h0000, \hff01, \hffff}, op \in {\h9d, \h99, \hb9}}

RomImages ==
  UNION {{Image(org, p, b) : b \in Bodies(org + Len(p))} : org \in Origins, p \in Preludes}
  \cup ShiftImages
  \cup BitImages
  \cup StaZpXImages
  \cup {CallImage, StoreImage}
  \cup LoadImages
  \cup IndexedImages
  \cup {OpcodePage(\hc1, e) : e \in {\hc100, \hc130, \hc170, \hc1ff}}
  \cup {OpcodePage(\hff, \hfdfc)}

NoCpu ==
  [r |-> [n \in 0..15 |-> 0], rip |-> 0, cf |-> FlagUndef, zf |-> FlagUndef,
   sf |-> FlagUndef, stk |-> <<>>, below |-> <<>>, st |-> "off"]

NoJit == [fill_stride |-> 0, fill_bytes |-> 0, stride |-> 0, lo |-> 0, hi |-> 0, slots |-> <<>>]

\* main creates no VIA.
NoVia == [st |-> "none"]

(***************************************************************************)
(* main: the state after the mapping is made and the ROM is read, then      *)
(* jit_init, jit_jit, jit_enter and the translated code, one slot a step.   *)
(* hist is a history variable: the machine before the last slot ran and     *)
(* before the one before it, newest first.                                  *)
(***************************************************************************)
Init ==
  /\ pc = "jit_init"
  /\ p_mem \in {a + k_guard_size : a \in MapAddrs}
  /\ mem \in RomImages
  /\ rom = <<>>
  /\ jit = NoJit
  /\ cpu = NoCpu
  /\ steps = 0
  /\ hist = <<>>
  /\ probe = <<>>
  /\ via = NoVia

main_jit_init ==
  /\ pc = "jit_init"
  /\ jit' = jit_init(jit, k_jit_bytes_per_byte, k_addr_space_size)
  /\ pc' = "jit_jit"
  /\ UNCHANGED <<p_mem, mem, rom, cpu, steps, hist, probe, via>>

main_jit_jit ==
  /\ pc = "jit_jit"
  /\ jit' = jit_jit(jit, mem, k_jit_bytes_per_byte, k_os_rom_offset, k_os_rom_len)
  /\ rom' = mem
  /\ pc' = IF ~jit_jit_asserts(jit', mem) THEN "abort"
           ELSE IF ~jit_jit_in_arena(jit') THEN "segv"
           ELSE "jit_enter"
  /\ UNCHANGED <<p_mem, mem, cpu, steps, hist, probe, via>>

main_jit_enter ==
  /\ pc = "jit_enter"
  /\ \E junk \in HostGarbage :
       cpu' = jit_enter(mem, k_jit_bytes_per_byte, k_vector_reset, junk)
  /\ pc' = "running"
  /\ UNCHANGED <<p_mem, mem, rom, jit, steps, hist, probe, via>>

Machine == [f \in (DOMAIN cpu) \cup {"mem"} |-> IF f = "mem" THEN mem ELSE cpu[f]]

\* The machine t the host reached: its registers, guest memory, and where the
\* process is (a fault ends it).
Landed(t, running) ==
  /\ cpu' = [f \in DOMAIN cpu |-> t[f]]
  /\ mem' = t.mem
  /\ pc' = IF t.st = "ok" THEN running ELSE t.st

\* The translated code runs one slot: from the first byte of the slot at
\* cpu.rip until control leaves it.  ud2 raises SIGILL and an access outside
\* the mapping SIGSEGV; main installs no handler, so either ends the process.
ExecSlot ==
  /\ pc = "running"
  /\ steps < MaxSteps
  /\ Landed(Run(Machine, cpu.rip, k_jit_bytes_per_byte), "running")
  /\ steps' = steps + 1
  /\ hist' = IF hist = <<>> THEN <<Machine>> ELSE <<Machine, hist[1]>>
  /\ UNCHANGED <<p_mem, rom, jit, probe, via>>

Next == main_jit_init \/ main_jit_jit \/ main_jit_enter \/ ExecSlot

Spec == Init /\ [][Next]_vars

TypeOK ==
  /\ pc \in {"jit_init", "jit_jit", "jit_enter", "running", "sigill", "segv"}
  /\ \A a \in DOMAIN mem : mem[a] \in Byte
  /\ \A n \in 0..15 : cpu.r[n] \in 0..MaxHostInt


(***************************************************************************)
(* Vocabulary of the properties: the slot that ran last.                   *)
(***************************************************************************)
Ran == steps > 0 /\ hist # <<>>

\* The machine before the last slot ran, and before the one before it.
before == hist[1]
before2 == hist[2]

last_G == PC_of(before)

Translated(G) == G >= jit.lo /\ G < jit.hi

\* The 6502 reads the k-th byte of the instruction at G from (G + k) mod 64K.
SrcByte(G, k) == MemRead(rom, (G + k) % k_addr_space_size)

SrcWord(G) == SrcByte(G, 1) + (256 * SrcByte(G, 2))

\* The slot of a translated guest address holding opcode op was entered at its
\* first byte, and (DidOp) ran to the end without a fault.
RanOpAt(m, op) ==
  /\ AtSlot(m.rip)
  /\ Translated(PC_of(m))
  /\ MemRead(rom, PC_of(m)) = op

RanOp(op) == Ran /\ RanOpAt(before, op)

DidOp(op) == RanOp(op) /\ pc = "running"

\* Guest stack bytes: the byte k above the stack pointer of machine m.
StackAddr(m, k) == 256 + ((S_of(m) + k) % 256)

SameRegs(m, c) ==
  /\ A_of(m) = A_of(c)
  /\ X_of(m) = X_of(c)
  /\ Y_of(m) = Y_of(c)

SameFlags(m, c) ==
  /\ C_of(m) = C_of(c)
  /\ Z_of(m) = Z_of(c)
  /\ N_of(m) = N_of(c)
  /\ P_of(m) = P_of(c)

SameMemExcept(m, addrs) ==
  \A a \in (DOMAIN mem) \cup (DOMAIN m.mem) :
    a \notin addrs => MemRead(mem, a) = MemRead(m.mem, a)

\* What a slot of the arena holds after jit_init and jit_jit: the code of its
\* guest address, then jit_init's padding.
SlotHolds(G) ==
  LET code == jit_jit_code(rom, k_jit_bytes_per_byte, G, jit.hi)
  IN  \A i \in 0..(k_jit_bytes_per_byte - 1) :
        HostByte(SlotAddr(G) + i)
          = IF i < Len(code) THEN code[i + 1] ELSE jit_init_byte(i, k_jit_bytes_per_byte)

\* The translated addresses the images put code at, and one whose source is zero.
StudyAddrs == {g \in DOMAIN rom : Translated(g)} \cup {k_os_rom_offset + 12288}

(***************************************************************************)
(* C1: the translation of guest address G is at arena_base + G*S, and       *)
(* every place that computes a slot address agrees: jit_jit writes the code *)
(* of G there, jit_enter enters at the slot of the reset-vector word, and   *)
(* JMP abs, JSR and RTS arrive at the first byte of the slot of their       *)
(* target.                                                                  *)
(***************************************************************************)
C1_SlotStride ==
  /\ pc = "jit_enter" => \A G \in StudyAddrs : SlotHolds(G)
  /\ (pc = "running" /\ steps = 0) =>
       cpu.rip = SlotAddr(MemRead(rom, k_vector_reset) + (256 * MemRead(rom, k_vector_reset + 1)))
  /\ (RanOp(\h4c) \/ RanOp(\h20)) =>
       /\ pc = "running"
       /\ cpu.rip = SlotAddr(SrcWord(last_G))
       /\ AtSlot(cpu.rip)
  /\ RanOp(\h60) =>
       /\ pc = "running"
       /\ cpu.rip = SlotAddr((MemRead(before.mem, StackAddr(before, 1))
                              + (256 * MemRead(before.mem, StackAddr(before, 2))) + 1)
                             % k_addr_space_size)
       /\ AtSlot(cpu.rip)

\* An RTS ran right after a JSR, and a JMP abs ran in another run.
C1_Witness ==
  /\ Len(hist) = 2
  /\ DidOp(\h60)
  /\ RanOpAt(before2, \h20)
  /\ PC_of(before) = SrcWord(PC_of(before2))

(***************************************************************************)
(* C5: JSR at G with operand T writes the high byte of G+2 at 0x0100+S and  *)
(* the low byte at 0x0100+((S-1) mod 256), leaves S decreased by 2 modulo   *)
(* 256, enters the slot of T and leaves A, X, Y and every flag shard,       *)
(* including C, unchanged.                                                  *)
(***************************************************************************)
C5_JSR ==
  RanOp(\h20) =>
    /\ pc = "running"
    /\ MemRead(mem, StackAddr(before, 0)) = Hi(last_G + 2)
    /\ MemRead(mem, StackAddr(before, 255)) = Lo(last_G + 2)
    /\ S_of(cpu) = (S_of(before) + 254) % 256
    /\ cpu.rip = SlotAddr(SrcWord(last_G))
    /\ SameRegs(before, cpu)
    /\ SameFlags(before, cpu)

\* A JSR ran with C = 1 and a non-zero A, crossing a page with its return address.
C5_Witness ==
  /\ DidOp(\h20)
  /\ C_of(before) = 1
  /\ A_of(before) # 0

(***************************************************************************)
(* C6: RTS pulls the low then the high byte, enters the slot of (pulled     *)
(* word + 1) mod 65536, increases S by 2 modulo 256 and changes nothing     *)
(* else; so a JSR at G to T followed by an RTS at T resumes at G+3 with S,  *)
(* A, X, Y and all flags as they were before the JSR.                       *)
(***************************************************************************)
C6_RTS ==
  /\ RanOp(\h60) =>
       /\ pc = "running"
       /\ cpu.rip = SlotAddr((MemRead(before.mem, StackAddr(before, 1))
                              + (256 * MemRead(before.mem, StackAddr(before, 2))) + 1)
                             % k_addr_space_size)
       /\ S_of(cpu) = (S_of(before) + 2) % 256
       /\ SameRegs(before, cpu)
       /\ SameFlags(before, cpu)
       /\ SameMemExcept(before, {})
  /\ (Len(hist) = 2 /\ RanOp(\h60) /\ RanOpAt(before2, \h20)
        /\ PC_of(before) = SrcWord(PC_of(before2))) =>
       /\ cpu.rip = SlotAddr((PC_of(before2) + 3) % k_addr_space_size)
       /\ S_of(cpu) = S_of(before2)
       /\ SameRegs(before2, cpu)
       /\ SameFlags(before2, cpu)

\* The round trip ran from a state with S = 1, so that the pushes wrap.
C6_Witness ==
  /\ Len(hist) = 2
  /\ DidOp(\h60)
  /\ RanOpAt(before2, \h20)
  /\ PC_of(before) = SrcWord(PC_of(before2))
  /\ S_of(before2) = 1

(***************************************************************************)
(* C7: from jit_enter on, the high byte of the count register is 0x01 and   *)
(* its low byte is the guest S, so every stack access is to 0x0100..0x01FF. *)
(***************************************************************************)
StackOps == {\h08, \h28, \h48, \h68, \h20, \h60}

C7_StackPage ==
  /\ pc \notin {"jit_init", "jit_jit", "jit_enter"} => cpu.r[RCX] \div 256 = 1
  /\ (Ran /\ \E op \in StackOps \cup {\h9a} : RanOp(op)) =>
       SameMemExcept(before, 256..511)

\* The stack pointer wrapped from 0x00 to 0xFF on a push.
C7_Witness ==
  /\ DidOp(\h48)
  /\ S_of(before) = 0
  /\ S_of(cpu) = 255
  /\ MemRead(mem, 256) = A_of(before)

(***************************************************************************)
(* C8: PHP immediately followed by PLP restores the C, Z and N shards, the  *)
(* V, I, D, B, U bits and S to their values before the PHP.                 *)
(***************************************************************************)
C8_PHP_PLP ==
  (Len(hist) = 2 /\ RanOp(\h28) /\ RanOpAt(before2, \h08)
     /\ PC_of(before) = PC_of(before2) + 1) =>
    /\ pc = "running"
    /\ SameFlags(before2, cpu)
    /\ S_of(cpu) = S_of(before2)

\* The round trip ran with V set and B, U clear, and C = Z = N = 1.
C8_Witness ==
  /\ Len(hist) = 2
  /\ DidOp(\h28)
  /\ RanOpAt(before2, \h08)
  /\ PC_of(before) = PC_of(before2) + 1
  /\ P_of(before2) = 64
  /\ C_of(before2) = 1
  /\ N_of(before2) = 1


(***************************************************************************)
(* C4: each conditional branch is taken exactly when its flag condition     *)
(* holds in the flag shards (BPL N=0, BMI N=1, BVC V=0, BVS V=1, BCC C=0,   *)
(* BCS C=1, BNE Z=0, BEQ Z=1), otherwise continues at G+2, and leaves A, X, *)
(* Y, S and every flag shard unchanged.                                     *)
(***************************************************************************)
V_of(c) == Bit(P_of(c), 6)

BranchTaken(op, c) ==
  CASE op = \h10 -> N_of(c) = 0
    [] op = \h30 -> N_of(c) = 1
    [] op = \h50 -> V_of(c) = 0
    [] op = \h70 -> V_of(c) = 1
    [] op = \h90 -> C_of(c) = 0
    [] op = \hb0 -> C_of(c) = 1
    [] op = \hd0 -> Z_of(c) = 0
    [] op = \hf0 -> Z_of(c) = 1

BranchOK(op) ==
  RanOp(op) =>
    /\ pc = "running"
    /\ cpu.rip = IF BranchTaken(op, before)
                 THEN SlotAddr(last_G + 2 + SignedChar(SrcByte(last_G, 1)))
                 ELSE SlotAddr(last_G + 2)
    /\ SameRegs(before, cpu)
    /\ S_of(cpu) = S_of(before)
    /\ SameFlags(before, cpu)
    /\ SameMemExcept(before, {})

C4_Branches == \A op \in BranchOps : BranchOK(op)

(***************************************************************************)
(* C9: when a slot is executed, the guest bytes it was translated from      *)
(* equal the current guest memory: after a store to the opcode or an        *)
(* operand byte of a translated instruction, the next execution of that     *)
(* instruction is that of the new bytes.                                    *)
(***************************************************************************)
C9_Invalidation ==
  (Ran /\ AtSlot(before.rip) /\ Translated(last_G)) =>
    jit_jit_code(rom, k_jit_bytes_per_byte, last_G, jit.hi)
      = jit_jit_code(before.mem, k_jit_bytes_per_byte, last_G, jit.hi)

(***************************************************************************)
(* C10: the slot of an opcode without an emitter begins with ud2 (0x0F      *)
(* 0x0B), the opcode byte, the high byte of G and the low byte of G;        *)
(* executing it traps at that slot and changes nothing.                     *)
(***************************************************************************)
C10_Sentinel ==
  /\ pc = "jit_enter" =>
       \A G \in StudyAddrs :
         MemRead(rom, G) \notin Implemented =>
           /\ HostByte(SlotAddr(G)) = \h0f
           /\ HostByte(SlotAddr(G) + 1) = \h0b
           /\ HostByte(SlotAddr(G) + 2) = MemRead(rom, G)
           /\ HostByte(SlotAddr(G) + 3) = Hi(G)
           /\ HostByte(SlotAddr(G) + 4) = Lo(G)
  /\ (Ran /\ AtSlot(before.rip) /\ Translated(last_G)
        /\ MemRead(rom, last_G) \notin Implemented) =>
       /\ pc = "sigill"
       /\ cpu.rip = before.rip
       /\ cpu.r = before.r
       /\ cpu.stk = before.stk
       /\ mem = before.mem

\* The slot of an unimplemented opcode other than 0x00 was executed, at an
\* address whose high and low bytes differ.
C10_Witness ==
  /\ Ran
  /\ pc = "sigill"
  /\ Translated(last_G)
  /\ MemRead(rom, last_G) \notin Implemented
  /\ MemRead(rom, last_G) # 0
  /\ Hi(last_G) # Lo(last_G)


(***************************************************************************)
(* The jump emitters on their own.  A probe is one call of an emitter in    *)
(* one iteration of jit_jit's loop at guest address G:                      *)
(*   "next": jit_emit_do_jmp_next at cursor `index` with length `oplen`;    *)
(*   "rel":  jit_emit_do_relative_jump at cursor `index` with host opcode   *)
(*           `jcc` and displacement byte `d`;                               *)
(*   "op":   the whole case of opcode `op` with operands `d` and `oplen`.   *)
(* For "next" and "rel" the bytes before the cursor stand for the body of   *)
(* the instruction and are nops.  The emitted bytes are written to the      *)
(* arena jit_init prepared and the host runs them from the cursor until     *)
(* control leaves the slot.                                                 *)
(***************************************************************************)
Cursors == 0..(k_jit_bytes_per_byte - 1)

ControlOps == BranchOps \cup {\h20, \h4c, \h60}

ProbeAddrsNext == {\hc000, \hffff}
ProbeAddrsRel == {\hc080}

Probes ==
  [kind : {"next"}, G : ProbeAddrsNext, index : Cursors, oplen : 1..3, jcc : {0}, d : {0},
   op : {0}]
  \cup [kind : {"rel"}, G : ProbeAddrsRel, index : Cursors, oplen : {2}, jcc : {\h74, \h75},
        d : Byte, op : {0}]
  \cup [kind : {"op"}, G : ProbeAddrsNext, index : {0}, oplen : {\h00, \h12}, jcc : {0},
        d : {\h00, \h34}, op : Implemented \ ControlOps]

RECURSIVE Nops(_)
Nops(n) == IF n = 0 THEN <<>> ELSE <<\h90>> \o Nops(n - 1)

ProbeCode(q) ==
  CASE q.kind = "next" -> jit_emit_do_jmp_next(Nops(q.index), k_jit_bytes_per_byte, q.oplen)
    [] q.kind = "rel" ->
         jit_emit_do_relative_jump(Nops(q.index), k_jit_bytes_per_byte, q.jcc, q.d)
    [] q.kind = "op" -> jit_jit_case(q.op, k_jit_bytes_per_byte, q.G, q.d, q.oplen)

\* The asserts that guard a probe: those of the emitters, and jit_jit's
\* assert on index at the end of the iteration.  For "next" the result of
\* jit_emit_do_jmp_next is discarded and index is still the cursor.
ProbeAsserts(q, code) ==
  /\ jit_emit_asserts(code)
  /\ (CASE q.kind = "next" -> q.index
        [] q.kind = "rel" -> Len(code)
        [] q.kind = "op" -> jit_jit_index(q.op, code)) <= k_jit_bytes_per_byte

\* The host enters the emitted code at the cursor with the registers as
\* jit_enter sets them; for "rel" the zero flag is the one that takes the jump.
ProbeCpu(q) ==
  LET c == jit_enter(mem, k_jit_bytes_per_byte, k_vector_reset, 0)
      at == SlotAddr(q.G) + q.index
  IN  [c EXCEPT !.rip = at, !.r[RSI] = SlotAddr(q.G),
                !.zf = IF q.kind = "rel" THEN (IF q.jcc = \h74 THEN 1 ELSE 0) ELSE FlagUndef]

InitEmit ==
  /\ pc = "emit"
  /\ p_mem \in {a + k_guard_size : a \in MapAddrs}
  /\ mem = <<>>
  /\ rom = <<>>
  /\ jit = jit_init(NoJit, k_jit_bytes_per_byte, k_addr_space_size)
  /\ cpu = NoCpu
  /\ steps = 0
  /\ hist = <<>>
  /\ probe \in Probes
  /\ via = NoVia

EmitProbe ==
  /\ pc = "emit"
  /\ jit' = [jit EXCEPT !.stride = k_jit_bytes_per_byte,
                        !.slots = (jit_jit_where(k_jit_bytes_per_byte, probe.G)
                                     :> ProbeCode(probe))]
  /\ pc' = IF ~jit_emit_asserts(ProbeCode(probe)) THEN "abort"
           ELSE IF ~jit_jit_in_arena(jit') THEN "segv"
           ELSE IF ~ProbeAsserts(probe, ProbeCode(probe)) THEN "abort"
           ELSE "probe"
  /\ cpu' = ProbeCpu(probe)
  /\ UNCHANGED <<p_mem, mem, rom, steps, hist, probe, via>>

RunProbe ==
  /\ pc = "probe"
  /\ Landed(Run(Machine, SlotAddr(probe.G), k_jit_bytes_per_byte), "probed")
  /\ steps' = steps + 1
  /\ hist' = <<Machine>>
  /\ UNCHANGED <<p_mem, rom, jit, probe, via>>

NextEmit == EmitProbe \/ RunProbe

SpecEmit == InitEmit /\ [][NextEmit]_vars

\* The length of a 6502 instruction by opcode (implied and accumulator
\* forms 1, absolute forms 3, the others 2), for the implemented opcodes.
OpLen6502(op) ==
  IF op \in {\h08, \h0a, \h28, \h38, \h48, \h4a, \h58, \h60, \h68, \h6a, \h78, \h88, \h8a,
             \h9a, \haa, \hca, \hd8, \he8}
  THEN 1
  ELSE IF op \in {\h20, \h4c, \h8c, \h8d, \h8e, \h99, \h9d, \hac, \had, \hae, \hb9, \hcd}
       THEN 3
       ELSE 2

ProbeDone == pc = "probed" \/ (pc \notin {"emit", "probe", "abort"} /\ Ran)

(***************************************************************************)
(* C2: the jump jit_emit_do_jmp_next emits, short or long, from any cursor  *)
(* lands on the first byte of the slot of G + oplen; and the code of every  *)
(* implemented opcode that is not a branch, JMP, JSR or RTS ends on the     *)
(* first byte of the slot of G + its 6502 length.                           *)
(***************************************************************************)
C2_JmpNext ==
  /\ (probe.kind = "next" /\ ProbeDone) =>
       /\ pc = "probed"
       /\ cpu.rip = SlotAddr(probe.G + probe.oplen)
  /\ (probe.kind = "op" /\ pc # "emit") =>
       /\ pc \in {"probe", "probed"}
       /\ pc = "probed" => cpu.rip = SlotAddr(probe.G + OpLen6502(probe.op))

\* A long-form jump from the last cursor at which it fits, and a whole
\* three-byte instruction, have run.
C2_Witness ==
  /\ pc = "probed"
  /\ \/ probe.kind = "next" /\ probe.oplen = 3 /\ probe.index = 59
        /\ HostByte(SlotAddr(probe.G) + probe.index) = \he9
     \/ probe.kind = "op" /\ probe.op = \h8d

(***************************************************************************)
(* C3: the conditional jump jit_emit_do_relative_jump emits for             *)
(* displacement byte d at any cursor lands, when taken, on the first byte   *)
(* of the slot of G + 2 + d (d signed); the 2-byte form is emitted exactly  *)
(* when the distance from the end of that form to the target fits in a      *)
(* signed byte, the 6-byte form otherwise.                                  *)
(***************************************************************************)
RelTarget == SlotAddr(probe.G + 2 + SignedChar(probe.d))

RelDistance == RelTarget - (SlotAddr(probe.G) + probe.index + 2)

RelEmitted == Len(jit.slots[jit_jit_where(k_jit_bytes_per_byte, probe.G)]) - probe.index

C3_RelativeJump ==
  probe.kind = "rel" =>
    /\ ProbeDone => (pc = "probed" /\ cpu.rip = RelTarget)
    /\ pc \in {"probe", "probed"} =>
         IF RelDistance >= -128 /\ RelDistance <= 127
         THEN /\ RelEmitted = 2
              /\ HostByte(SlotAddr(probe.G) + probe.index) = probe.jcc
         ELSE /\ RelEmitted = 6
              /\ HostByte(SlotAddr(probe.G) + probe.index) = \h0f
              /\ HostByte(SlotAddr(probe.G) + probe.index + 1) = probe.jcc + 16

\* A taken long-form jump, forward or backward over the whole range of d, has
\* run from the last cursor at which the long form fits.
C3_Witness ==
  /\ pc = "probed"
  /\ probe.kind = "rel"
  /\ probe.d \in {\h7f, \h80}
  /\ probe.index = 58
  /\ RelEmitted = 6

TypeOKEmit ==
  /\ pc \in {"emit", "probe", "probed", "abort", "segv"}
  /\ probe \in Probes

(***************************************************************************)
(* C11: after jit_init over the whole address space each of the 65536      *)
(* slots holds the invalid-instruction sentinel (ud2, in its first two      *)
(* bytes) and no-op padding (0x90, in the other 62), so that entering a     *)
(* slot that was not translated traps at once on the sentinel of that slot  *)
(* and changes nothing.                                                     *)
(***************************************************************************)
jit_init_slot_ok(G) ==
  /\ jit_init_byte(G * k_jit_bytes_per_byte, k_jit_bytes_per_byte) = \h0f
  /\ jit_init_byte((G * k_jit_bytes_per_byte) + 1, k_jit_bytes_per_byte) = \h0b
  /\ \A i \in 2..(k_jit_bytes_per_byte - 1) :
       jit_init_byte((G * k_jit_bytes_per_byte) + i, k_jit_bytes_per_byte) = \h90

jit_init_all_slots == \A G \in 0..(k_addr_space_size - 1) : jit_init_slot_ok(G)

UntranslatedSample == {0, 1, 255, 256, k_os_rom_offset - 1}

ProbeWritten == Len(jit.slots[jit_jit_where(k_jit_bytes_per_byte, probe.G)])

C13_PowerOn ==
  (pc = "running" /\ steps = 0) =>
    /\ A_of(cpu) = 0
    /\ X_of(cpu) = 0
    /\ Y_of(cpu) = 0
    /\ S_of(cpu) = 0
    /\ cpu.r[RCX] = 256
    /\ C_of(cpu) = 0
    /\ Z_of(cpu) = 0
    /\ N_of(cpu) = 0
    /\ Bit(P_of(cpu), 6) = 0
    /\ Bit(P_of(cpu), 2) = 0
    /\ Bit(P_of(cpu), 3) = 0
    /\ Bit(P_of(cpu), 5) = 1
    /\ Bit(P_of(cpu), 4) = 1
    /\ cpu.rip = SlotAddr(MemRead(mem, 65532) + (256 * MemRead(mem, 65533)))
    /\ cpu.r[RAX] = 0
    /\ cpu.r[RBX] = 0
    /\ cpu.r[RDX] = 0
    /\ cpu.r[R8] = 48

\* Entered at a vector whose two bytes differ, with junk in the registers
\* jit_enter does not set.
C13_Witness ==
  /\ pc = "running"
  /\ steps = 0
  /\ MemRead(mem, 65532) = \hfb
  /\ MemRead(mem, 65533) = \hc0
  /\ cpu.r[9] # 0

(***************************************************************************)
(* C14: each implemented shift or rotate (ASL A, LSR A, ROR A, ROL zp,      *)
(* ROR zp) leaves the 6502 result in its operand, the bit shifted out in    *)
(* the C shard, Z = 1 exactly when the 8-bit result is zero, and N = bit 7  *)
(* of the result.                                                          *)
(***************************************************************************)
ShiftOpcodes == {\h0a, \h4a, \h6a, \h26, \h66}

\* The operand of the shift at m's slot, read from machine c: A, or the
\* zero-page byte the instruction names.
ShiftOperand(op, m, c) ==
  IF op \in {\h26, \h66} THEN MemRead(c.mem, SrcByte(PC_of(m), 1)) ELSE A_of(c)

\* The 6502's result and carry out for operand v and carry in c.
ShiftResult(op, v, c) ==
  CASE op = \h0a -> (v * 2) % 256
    [] op = \h4a -> v \div 2
    [] op = \h26 -> ((v * 2) % 256) + c
    [] OTHER -> (v \div 2) + (128 * c)

ShiftCarry(op, v) == IF op \in {\h0a, \h26} THEN v \div 128 ELSE v % 2

ShiftValueOK(op) ==
  /\ ShiftOperand(op, before, Machine)
       = ShiftResult(op, ShiftOperand(op, before, before), C_of(before))
  /\ C_of(cpu) = ShiftCarry(op, ShiftOperand(op, before, before))

ShiftZNOK(op) ==
  /\ Z_of(cpu) = (IF ShiftOperand(op, before, Machine) = 0 THEN 1 ELSE 0)
  /\ N_of(cpu) = ShiftOperand(op, before, Machine) \div 128

C14_Shifts ==
  \A op \in ShiftOpcodes : DidOp(op) => (ShiftValueOK(op) /\ ShiftZNOK(op))

(***************************************************************************)
(* C15: BIT zp with zero-page byte M sets Z = 1 exactly when (A AND M) = 0, *)
(* N = bit 7 of M and V = bit 6 of M, and leaves A, X, Y, S, C, the I, D,   *)
(* B, U bits and guest memory unchanged.                                   *)
(***************************************************************************)
BitOperand == MemRead(before.mem, SrcByte(last_G, 1))

C15_BIT ==
  DidOp(\h24) =>
    /\ Z_of(cpu) = (IF BitAnd(A_of(before), BitOperand) = 0 THEN 1 ELSE 0)
    /\ N_of(cpu) = Bit(BitOperand, 7)
    /\ V_of(cpu) = Bit(BitOperand, 6)
    /\ SameRegs(before, cpu)
    /\ S_of(cpu) = S_of(before)
    /\ cpu.r[RCX] = before.r[RCX]
    /\ C_of(cpu) = C_of(before)
    /\ \A b \in {2, 3, 4, 5} : Bit(P_of(cpu), b) = Bit(P_of(before), b)
    /\ mem = before.mem
    /\ PC_of(cpu) = last_G + 2

\* BIT of 0x80 with A = 0x40 and V set: V is cleared, N and Z are set, C stays.
C15_Witness ==
  /\ DidOp(\h24)
  /\ BitOperand = \h80
  /\ A_of(before) = \h40
  /\ V_of(before) = 1
  /\ V_of(cpu) = 0
  /\ N_of(cpu) = 1
  /\ Z_of(cpu) = 1

(***************************************************************************)
(* C16: STA zp,X writes A to the single guest address (operand + X) mod 256 *)
(* in page zero; Y, which shares the host register with X, does not         *)
(* influence the address, and no other guest byte changes.                  *)
(***************************************************************************)
StaZpXAddr == (SrcByte(last_G, 1) + X_of(before)) % 256

C16_STA_zp_X ==
  DidOp(\h95) =>
    /\ MemRead(mem, StaZpXAddr) = A_of(before)
    /\ SameMemExcept(before, {StaZpXAddr})
    /\ SameRegs(before, cpu)
    /\ SameFlags(before, cpu)
    /\ S_of(cpu) = S_of(before)

\* X = 0x05, Y = 0xFF and operand 0xFD: the byte goes to 0x0002, and 0x0102
\* and 0xFF02 stay as they were.
C16_Witness ==
  /\ DidOp(\h95)
  /\ X_of(before) = 5
  /\ Y_of(before) = 255
  /\ SrcByte(last_G, 1) = \hfd
  /\ MemRead(before.mem, 2) = 0
  /\ MemRead(mem, 2) = \h5a
  /\ MemRead(mem, 258) = 0
  /\ MemRead(mem, 65282) = 0

(***************************************************************************)
(* C18: no translated guest instruction reads or writes the host stack:     *)
(* across the execution of any slot, JSR and RTS included, the host stack   *)
(* pointer and the host stack contents are never touched.                   *)
(***************************************************************************)
RanTranslated == Ran /\ AtSlot(before.rip) /\ Translated(last_G)

\* The stack as the slot found it: the same live words (so the same stack
\* pointer), and nothing written under the stack pointer.
HostStackKept == cpu.stk = before.stk
HostStackUnwritten == cpu.below = before.below

C18_HostStack == RanTranslated => (HostStackKept /\ HostStackUnwritten)

(***************************************************************************)
(* C19: a BNE with displacement -126 is emitted with the short host         *)
(* conditional jump and a BNE with displacement -127 with the long form;    *)
(* both execute and both have the same guest semantics: taken iff Z = 0,    *)
(* landing on the slot of G + 2 + displacement.                             *)
(***************************************************************************)
BneDisp == SrcByte(last_G, 1)

\* The host jump that follows "test dl, dl" in the slot of the BNE that ran:
\* je rel8 (0x74) or je rel32 (0x0f 0x84).
BneShort == HostByte(SlotAddr(last_G) + 2) = \h74

BneLong ==
  /\ HostByte(SlotAddr(last_G) + 2) = \h0f
  /\ HostByte(SlotAddr(last_G) + 3) = \h84

C19_BNE_Forms ==
  (RanOp(\hd0) /\ BneDisp \in {\h81, \h82}) =>
    /\ BneDisp = \h82 => BneShort
    /\ BneDisp = \h81 => BneLong
    /\ BranchOK(\hd0)

\* C19 as the code has it: both displacements are emitted with the long form
\* (the short form is used exactly for displacements -3 .. 0, the targets
\* within 128 host bytes), and both execute with the semantics of BNE.
C19_BNE_Long ==
  RanOp(\hd0) =>
    /\ BneDisp \in {\h81, \h82} => BneLong
    /\ BneShort <=> SignedChar(BneDisp) \in -3..0
    /\ BneShort \/ BneLong
    /\ BranchOK(\hd0)

\* A taken BNE -126 in the long form landed 124 slots back.
C19_Witness ==
  /\ RanOp(\hd0)
  /\ BneDisp = \h82
  /\ BneLong
  /\ Z_of(before) = 0
  /\ pc = "running"
  /\ PC_of(cpu) = last_G - 124
  /\ Translated(PC_of(cpu))

(***************************************************************************)
(* C20: from power-on with 20 0A C0 00 at 0xC000 and 60 at 0xC00A, entered  *)
(* at 0xC000: while the subroutine at 0xC00A runs, guest 0x01FE holds 0x02  *)
(* and 0x01FF holds 0xC0; after the RTS execution continues at 0xC003 and   *)
(* stops there on the BRK.                                                 *)
(***************************************************************************)
CallRun == rom = CallImage

\* In the subroutine: the JSR has run and the RTS has not.
InSubroutine == CallRun /\ pc = "running" /\ steps = 1

\* The JSR went to the subroutine, the RTS came back to 0xC003, and the run
\* stopped in the slot of 0xC003 without executing anything after it.
CallReturns ==
  CallRun =>
    /\ steps <= 3
    /\ steps = 0 => pc \in {"jit_enter", "running"}
    /\ steps = 1 => (pc = "running" /\ PC_of(cpu) = \hc00a)
    /\ steps = 2 => (pc = "running" /\ PC_of(cpu) = \hc003 /\ AtSlot(cpu.rip))
    /\ steps = 3 => (pc = "sigill" /\ PC_of(cpu) = \hc003 /\ AtSlot(cpu.rip)
                     /\ cpu.r = before.r /\ mem = before.mem)

RangeInstrs ==
  { <<\hc0fd, <<\h8d, \h34, \h12>> >>,
    <<\hc0fe, <<\h8d, \h34, \h12>> >>,
    <<\hc0ff, <<\h8d, \h34, \h12>> >>,
    <<\hc0fe, <<\h4c, \h00, \hc0>> >>,
    <<\hc0ff, <<\h4c, \h00, \hc0>> >>,
    <<\hc0fe, <<\ha9, \h55>> >>,
    <<\hc0ff, <<\ha9, \h55>> >>,
    <<\hc0ff, <<\hd0, \hfe>> >>,
    <<\hc0ff, <<\he8>> >>,
    <<\hc0fe, <<\h00, \h00, \h77>> >>,
    <<\hfffd, <<\h8d, \h34, \h12>> >>,
    <<\hfffe, <<\h8d, \h34>> >>,
    <<\hfffe, <<\ha9, \h55>> >>,
    <<\hffff, <<\ha9>> >>,
    <<\hffff, <<\h60>> >> }

RangeMems == {Place(f[1], f[2]) : f \in RangeInstrs}

\* main's range, the whole address space, and ranges that end at 0xC0FF,
\* 0xC100 and 0xC101.
Ranges ==
  { [kind |-> "range", jit_offset |-> k_os_rom_offset, jit_len |-> k_os_rom_len],
    [kind |-> "range", jit_offset |-> 0, jit_len |-> k_addr_space_size],
    [kind |-> "range", jit_offset |-> k_os_rom_offset, jit_len |-> 256],
    [kind |-> "range", jit_offset |-> k_os_rom_offset, jit_len |-> 255],
    [kind |-> "range", jit_offset |-> \hc0fe, jit_len |-> 1],
    [kind |-> "range", jit_offset |-> \hc0fe, jit_len |-> 3],
    [kind |-> "range", jit_offset |-> \hc0ff, jit_len |-> 1],
    [kind |-> "range", jit_offset |-> \hc0fd, jit_len |-> 3] }

InitRange ==
  /\ pc = "range_init"
  /\ p_mem \in {a + k_guard_size : a \in MapAddrs}
  /\ mem \in RangeMems
  /\ rom = <<>>
  /\ jit = NoJit
  /\ cpu = NoCpu
  /\ steps = 0
  /\ hist = <<>>
  /\ probe \in Ranges
  /\ via = NoVia

range_jit_init ==
  /\ pc = "range_init"
  /\ jit' = jit_init(jit, k_jit_bytes_per_byte, k_addr_space_size)
  /\ pc' = "range_jit"
  /\ UNCHANGED <<p_mem, mem, rom, cpu, steps, hist, probe, via>>

range_jit_jit ==
  /\ pc = "range_jit"
  /\ jit' = jit_jit(jit, mem, k_jit_bytes_per_byte, probe.jit_offset, probe.jit_len)
  /\ rom' = mem
  /\ pc' = IF ~jit_jit_asserts(jit', mem) THEN "abort"
           ELSE IF ~jit_jit_in_arena(jit') THEN "segv"
           ELSE "ranged"
  /\ UNCHANGED <<p_mem, mem, cpu, steps, hist, probe, via>>

NextRange == range_jit_init \/ range_jit_jit

SpecRange == InitRange /\ [][NextRange]_vars

TypeOKRange ==
  /\ pc \in {"range_init", "range_jit", "ranged"}
  /\ probe \in Ranges
  /\ mem \in RangeMems
  /\ pc = "ranged" => (jit.lo = probe.jit_offset /\ jit.hi = probe.jit_offset + probe.jit_len)

(***************************************************************************)
(* C17: translating the range G0 .. G0+N-1 rewrites exactly the slots of    *)
(* that range, and the code in the slot of each G of the range is the       *)
(* translation of opcode mem[G] with operands mem[G+1] and mem[G+2] read    *)
(* from guest memory, also for the last two bytes of the range.             *)
(***************************************************************************)
InRange(G) == G >= probe.jit_offset /\ G < probe.jit_offset + probe.jit_len

\* The 64 bytes of the slot of G as the arena holds them.
RangeSlot(G) == [i \in 0..(k_jit_bytes_per_byte - 1) |-> HostByte(SlotAddr(G) + i)]

RangePadded(code) ==
  [i \in 0..(k_jit_bytes_per_byte - 1) |->
     IF i < Len(code) THEN code[i + 1] ELSE jit_init_byte(i, k_jit_bytes_per_byte)]

\* The translation of the instruction at G with its operands from guest memory.
RangeExpected(G) ==
  RangePadded(jit_jit_case(MemRead(mem, G), k_jit_bytes_per_byte, G,
                           MemRead(mem, (G + 1) % k_addr_space_size),
                           MemRead(mem, (G + 2) % k_addr_space_size)))

\* The guest addresses looked at: around the instruction and around both ends
\* of the range.
RangeStudy ==
  ({a - k : a \in DOMAIN mem, k \in 0..3}
     \cup {probe.jit_offset + d : d \in {-1, 0, 1}}
     \cup {probe.jit_offset + probe.jit_len + d : d \in {-3, -2, -1, 0, 1}}
     \cup {0, k_addr_space_size - 1})
  \cap (0..(k_addr_space_size - 1))

RangeOutsideKept ==
  \A G \in RangeStudy : ~InRange(G) => RangeSlot(G) = RangePadded(<<>>)

RangeInsideTranslated(Gs) ==
  \A G \in Gs : InRange(G) => RangeSlot(G) = RangeExpected(G)

StoreRun == rom = StoreImage

\* The store has run: the second slot of the run is that of STA $2000.
StoreDone == StoreRun /\ steps >= 2

\* Control is back in main, after jit_enter's call: the translated code
\* returned instead of ending the process.
InSupervisor == pc = "returned"

\* What the slot of the 0x00 byte carries after its trap: the opcode and
\* the guest address.
TrapCarries(G, opcode) ==
  /\ HostByte(SlotAddr(G) + 2) = opcode
  /\ (256 * HostByte(SlotAddr(G) + 3)) + HostByte(SlotAddr(G) + 4) = G

StoreThenTrap ==
  /\ StoreDone => (MemRead(mem, \h2000) = \h42 /\ A_of(cpu) = \h42)
  /\ (StoreRun /\ steps = 2) => (pc = "running" /\ PC_of(cpu) = \hc005)
  /\ (StoreRun /\ steps = 3) => (PC_of(cpu) = \hc005 /\ TrapCarries(\hc005, 0))
  /\ StoreRun => steps <= 3

C21_BrkExit == StoreThenTrap /\ ((StoreRun /\ steps = 3) => InSupervisor)

(***************************************************************************)
(* C24: every implemented instruction that loads a new value into A, X or   *)
(* Y (LDA #imm, LDA abs, LDA abs,Y, LDX #imm, LDX abs, LDY #imm, LDY abs,   *)
(* PLA, TAX, TXA) leaves Z = 1 exactly when the loaded value is 0 and N =   *)
(* bit 7 of the loaded value, and leaves C unchanged.                       *)
(***************************************************************************)
LoadOps == {\ha9, \had, \hb9, \ha2, \hae, \ha0, \hac, \h68, \haa, \h8a}

\* The register the load writes, in machine c.
LoadDest(op, c) ==
  IF op \in {\ha2, \hae, \haa} THEN X_of(c)
  ELSE IF op \in {\ha0, \hac} THEN Y_of(c)
  ELSE A_of(c)

\* The 6502's value for the load that ran from the machine `before`.
LoadSource(op) ==
  CASE op \in {\ha9, \ha2, \ha0} -> SrcByte(last_G, 1)
    [] op \in {\had, \hae, \hac} -> MemRead(before.mem, SrcWord(last_G))
    [] op = \hb9 -> MemRead(before.mem, (SrcWord(last_G) + Y_of(before)) % k_addr_space_size)
    [] op = \h68 -> MemRead(before.mem, StackAddr(before, 1))
    [] op = \haa -> A_of(before)
    [] OTHER -> X_of(before)

LoadValueOK(op) == LoadDest(op, cpu) = LoadSource(op)

LoadFlagsOK(op) ==
  /\ Z_of(cpu) = (IF LoadDest(op, cpu) = 0 THEN 1 ELSE 0)
  /\ N_of(cpu) = Bit(LoadDest(op, cpu), 7)
  /\ C_of(cpu) = C_of(before)

C24_LoadFlags == \A op \in LoadOps : DidOp(op) => LoadFlagsOK(op)

(***************************************************************************)
(* C25: in every state reached by executing translated instructions from    *)
(* power-on, bit 5 (U) of the packed remaining-flags register is set, so    *)
(* every byte pushed by PHP has bit 5 and bit 4 set, whatever bytes earlier *)
(* PLP instructions pulled.                                                 *)
(***************************************************************************)
\* The byte the PHP that just ran stored at 0x0100 + S.
PushedP == MemRead(mem, StackAddr(before, 0))

UBitSet == pc \in {"running", "sigill", "segv"} => Bit(P_of(cpu), 5) = 1

PushedBitsSet == DidOp(\h08) => (Bit(PushedP, 5) = 1 /\ Bit(PushedP, 4) = 1)

C25_UBit == UBitSet /\ PushedBitsSet

(***************************************************************************)
(* C26: every guest load or store of translated code (zero page, zero       *)
(* page,X, absolute, absolute,X, absolute,Y and stack accesses) addresses a *)
(* byte inside the 64 KiB guest memory: the effective address is in         *)
(* 0..0xFFFF, absolute indexed addresses wrap modulo 65536, and no access   *)
(* reaches the guard page or the arena.                                     *)
(***************************************************************************)
\* The effective address of the absolute indexed instruction that ran.
IndexedAddr(index) == (SrcWord(last_G) + index) % k_addr_space_size

\* No slot of translated code ended in a fault of a data access: a read or a
\* write of the guard page ("segv") or a write into the arena.
NoStrayAccess == RanTranslated => pc \notin {"segv", "arena_store"}

GuestBytesOnly == \A a \in DOMAIN mem : a >= 0 /\ a < k_addr_space_size

IndexedWraps ==
  /\ DidOp(\h9d) =>
       /\ MemRead(mem, IndexedAddr(X_of(before))) = A_of(before)
       /\ SameMemExcept(before, {IndexedAddr(X_of(before))})
  /\ DidOp(\h99) =>
       /\ MemRead(mem, IndexedAddr(Y_of(before))) = A_of(before)
       /\ SameMemExcept(before, {IndexedAddr(Y_of(before))})
  /\ DidOp(\hb9) =>
       /\ A_of(cpu) = MemRead(before.mem, IndexedAddr(Y_of(before)))
       /\ mem = before.mem
  /\ RanOp(\h9d) \/ RanOp(\h99) \/ RanOp(\hb9) => pc = "running"

\* The registers every effective address is formed from: the guest memory
\* base, the stack offset 0x0100 + S, and X and Y in the low 16 bits of rbx.
AddressRegsBounded ==
  pc = "running" =>
    /\ cpu.r[RDI] = p_mem
    /\ cpu.r[RCX] >= 256
    /\ cpu.r[RCX] <= 511
    /\ cpu.r[RBX] < k_addr_space_size

C26_InBuffer == NoStrayAccess /\ GuestBytesOnly /\ IndexedWraps /\ AddressRegsBounded

\* STA $FFFF,X with X = 0xFF stored A at 0x00FE.
C26_Witness ==
  /\ DidOp(\h9d)
  /\ SrcWord(last_G) = \hffff
  /\ X_of(before) = \hff
  /\ MemRead(before.mem, \hfe) = 0
  /\ MemRead(mem, \hfe) = \h5a



(***************************************************************************)
(* The 6522 VIA of src/via.c.  The variable via holds one via_struct (its   *)
(* fields under their own names), the values of its two timers in the       *)
(* timing module (timer), the level of its line in the 6502 state (irq),    *)
(* and st, which becomes "assert" when an assert of via.c fails (the        *)
(* process aborts there).  Registers are named by the k_via_* constant the  *)
(* switch statements use; "none" stands for a register number that is none  *)
(* of them.                                                                 *)
(***************************************************************************)
k_int_CA2 == \h01
k_int_CA1 == \h02
k_int_TIMER2 == \h20
k_int_TIMER1 == \h40

ViaRegs == {"ORB", "ORA", "DDRB", "DDRA", "T1CL", "T1CH", "T1LL", "T1LH",
            "T2CL", "T2CH", "SR", "ACR", "PCR", "IFR", "IER", "ORAnh"}

\* A failed assert: the process aborts with the VIA as it was.
Asserted(v) == [v EXCEPT !.st = "assert"]

\* The timing module keeps one value per registered timer; a timer that was
\* never started (the externally clocked VIA) keeps the value last set.
timing_set_timer_value(v, id, val) == [v EXCEPT !.timer[id] = val]

timing_get_timer_value(v, id) == v.timer[id]

\* The 6502 state keeps one level per interrupt source.
state_6502_set_irq_level(v, interrupt, level) == [v EXCEPT !.irq[interrupt] = level]

\* val << 1 of an int32_t (a negative val is shifted as its two's complement).
\* The counters and tick counts of the model stay far inside the int32_t range.
via_set_t1c(v, val) == timing_set_timer_value(v, "t1", val * 2)

\* The fix-up of a counter that ran below -1: relatches of T1L + 2 ticks.
via_get_t1c(v) ==
  LET val == timing_get_timer_value(v, "t1") \div 2
      delta == (-val) - 2
      relatch_cycles == v.T1L + 2
      relatches == (delta \div relatch_cycles) + 1
  IN  IF val < -1 THEN val + (relatches * relatch_cycles) ELSE val

via_set_t2c(v, val) == timing_set_timer_value(v, "t2", val * 2)

via_get_t2c(v) ==
  LET val == timing_get_timer_value(v, "t2") \div 2
      delta == (-val) - 2
      relatch_cycles == \h10000
      relatches == (delta \div relatch_cycles) + 1
  IN  IF val < -1 THEN val + (relatches * relatch_cycles) ELSE val

\* assert(!(val & 1)) of via_get_t1c and via_get_t2c.
via_timer_asserts(v, id) == timing_get_timer_value(v, id) % 2 = 0

via_check_interrupt(v) ==
  LET interrupt == IF v.id = "system" THEN "irq_1" ELSE "irq_2"
  IN  IF v.st # "ok" THEN v
      ELSE IF BitAnd(v.IER, \h80) # 0 THEN Asserted(v)
      ELSE IF BitAnd(v.IER, v.IFR) # 0
           THEN state_6502_set_irq_level([v EXCEPT !.IFR = BitOr(v.IFR, \h80)], interrupt, 1)
           ELSE state_6502_set_irq_level([v EXCEPT !.IFR = BitAnd(v.IFR, \h7f)], interrupt, 0)

via_raise_interrupt(v, val) ==
  IF v.st # "ok" THEN v
  ELSE IF BitAnd(val, \h80) # 0 THEN Asserted(v)
  ELSE via_check_interrupt([v EXCEPT !.IFR = BitOr(v.IFR, val)])

via_clear_interrupt(v, val) ==
  IF v.st # "ok" THEN v
  ELSE IF BitAnd(val, \h80) # 0 THEN Asserted(v)
  ELSE via_check_interrupt([v EXCEPT !.IFR = BitAnd(v.IFR, 255 - val)])

\* A variant in which power-on counts as a timer load.
via_create_loaded(id, externally_clocked) ==
  via_set_t2c(
    via_set_t1c(
      [id |-> id, externally_clocked |-> externally_clocked,
       ORB |-> 0, ORA |-> 0, DDRB |-> 0, DDRA |-> 0, SR |-> 0, ACR |-> 0,
       PCR |-> 0, IFR |-> 0, IER |-> 0, peripheral_b |-> 0, peripheral_a |-> 0,
       T1L |-> \hffff, T2L |-> \hffff,
       t1_oneshot_fired |-> 0, t2_oneshot_fired |-> 0, t1_pb7 |-> 1,
       timer |-> [t \in {"t1", "t2"} |-> 0],
       irq |-> [i \in {"irq_1", "irq_2"} |-> 0],
       st |-> "ok"],
      \hffff),
    \hffff)

\* via_create: the struct is zeroed, then the fields below are set.  The
\* timers are never started when the VIA is externally clocked.  The level of
\* the interrupt line is whatever the 6502 state holds; no VIA has raised it.
via_create(id, externally_clocked) ==
  via_set_t2c(
    via_set_t1c(
      [id |-> id, externally_clocked |-> externally_clocked,
       ORB |-> 0, ORA |-> 0, DDRB |-> 0, DDRA |-> 0, SR |-> 0, ACR |-> 0,
       PCR |-> 0, IFR |-> 0, IER |-> 0, peripheral_b |-> 0, peripheral_a |-> 0,
       T1L |-> \hffff, T2L |-> \hffff,
       t1_oneshot_fired |-> 1, t2_oneshot_fired |-> 1, t1_pb7 |-> 1,
       timer |-> [t \in {"t1", "t2"} |-> 0],
       irq |-> [i \in {"irq_1", "irq_2"} |-> 0],
       st |-> "ok"],
      \hffff),
    \hffff)

\* keys is what the keyboard answers: key (bbc_is_key_pressed of the row and
\* column in peripheral_a), column (bbc_is_key_column_pressed) and any
\* (bbc_is_any_key_pressed).
sysvia_update_port_a(v, keys) ==
  LET scan == BitAnd(v.peripheral_b, \h08) = 0
      w == IF scan /\ ~keys.key
           THEN [v EXCEPT !.peripheral_a = BitAnd(v.peripheral_a, \h7f)]
           ELSE v
      fire == IF scan THEN keys.column ELSE keys.any
  IN  IF fire THEN via_raise_interrupt(w, k_int_CA2) ELSE w

\* The VIA after the port read, and the value read.
via_read_port_a(v, keys) ==
  IF v.id = "system"
  THEN LET w == sysvia_update_port_a(v, keys) IN [via |-> w, val |-> w.peripheral_a]
  ELSE IF v.id = "user" THEN [via |-> v, val |-> \hff]
  ELSE [via |-> Asserted(v), val |-> 0]

via_write_port_a(v, keys) ==
  IF v.id = "system"
  THEN sysvia_update_port_a(
         [v EXCEPT !.peripheral_a = BitOr(BitAnd(v.ORA, v.DDRA), 255 - v.DDRA)], keys)
  ELSE IF v.id = "user" THEN v
  ELSE Asserted(v)

via_read_port_b(v) == IF v.id \in {"system", "user"} THEN \hff ELSE 0

\* The byte sent to the sound chip (sound_sn_write) leaves the VIA.
via_write_port_b(v) ==
  LET port_val == BitOr(BitAnd(v.ORB, v.DDRB), 255 - v.DDRB)
      port_bit == 2 ^ (port_val % 8)
      bit_set == BitAnd(port_val, \h08) = \h08
  IN  IF v.id = "system"
      THEN IF bit_set
           THEN [v EXCEPT !.peripheral_b = BitOr(v.peripheral_b, port_bit)]
           ELSE [v EXCEPT !.peripheral_b = BitAnd(v.peripheral_b, 255 - port_bit)]
      ELSE IF v.id = "user" THEN v
      ELSE Asserted(v)

\* A variant that never mixes PB7 in.
via_read_ORB_no_pb7(v) ==
  LET val == BitOr(BitAnd(v.ORB, v.DDRB), BitAnd(via_read_port_b(v), 255 - v.DDRB))
  IN  IF BitAnd(v.PCR, \ha0) = \h20 \/ BitAnd(v.ACR, \h02) # 0
      THEN [via |-> Asserted(v), val |-> 0]
      ELSE [via |-> v, val |-> val]

\* case k_via_ORB of via_read.
via_read_ORB(v) ==
  LET val == BitOr(BitAnd(v.ORB, v.DDRB), BitAnd(via_read_port_b(v), 255 - v.DDRB))
  IN  IF BitAnd(v.PCR, \ha0) = \h20 \/ BitAnd(v.ACR, \h02) # 0
      THEN [via |-> Asserted(v), val |-> 0]
      ELSE IF BitAnd(v.ACR, \h80) # 0
           THEN [via |-> v, val |-> BitOr(BitAnd(val, \h7f), (v.t1_pb7 * 128) % 256)]
           ELSE [via |-> v, val |-> val]

\* case k_via_ORAnh of via_read, which case k_via_ORA falls through to.
via_read_ORAnh(v, keys) ==
  LET p == via_read_port_a(v, keys)
      val == BitOr(BitAnd(v.ORA, v.DDRA), BitAnd(p.val, 255 - v.DDRA))
  IN  IF v.st # "ok" THEN [via |-> v, val |-> 0]
      ELSE IF BitAnd(v.ACR, \h01) # 0 THEN [via |-> Asserted(v), val |-> 0]
      ELSE [via |-> p.via, val |-> val]

via_read_ORA(v, keys) ==
  IF BitAnd(v.PCR, \h0a) = \h02
  THEN [via |-> Asserted(v), val |-> 0]
  ELSE via_read_ORAnh(via_clear_interrupt(via_clear_interrupt(v, k_int_CA1), k_int_CA2), keys)

\* The low or high byte of (uint16_t) timer_val.
via_read_timer(v, timer_val, high) ==
  [via |-> v,
   val |-> IF high THEN (timer_val % 65536) \div 256 ELSE (timer_val % 65536) % 256]

\* via_read: the VIA after the read and the value returned.  There is no case
\* for k_via_DDRA: it takes the default branch to the trailing assert(0).
via_read(v, reg, keys) ==
  CASE reg = "ORB" -> via_read_ORB(v)
    [] reg = "ORA" -> via_read_ORA(v, keys)
    [] reg = "ORAnh" -> via_read_ORAnh(v, keys)
    [] reg = "DDRB" -> [via |-> v, val |-> v.DDRB]
    [] reg = "T1CL" ->
         LET w == via_clear_interrupt(v, k_int_TIMER1)
         IN  IF ~via_timer_asserts(w, "t1") THEN [via |-> Asserted(w), val |-> 0]
             ELSE via_read_timer(w, via_get_t1c(w), FALSE)
    [] reg = "T1CH" ->
         IF ~via_timer_asserts(v, "t1") THEN [via |-> Asserted(v), val |-> 0]
         ELSE via_read_timer(v, via_get_t1c(v), TRUE)
    [] reg = "T1LL" -> [via |-> v, val |-> BitAnd(v.T1L, \hff)]
    [] reg = "T1LH" -> [via |-> v, val |-> v.T1L \div 256]
    [] reg = "T2CL" ->
         LET w == via_clear_interrupt(v, k_int_TIMER2)
         IN  IF ~via_timer_asserts(w, "t2") THEN [via |-> Asserted(w), val |-> 0]
             ELSE via_read_timer(w, via_get_t2c(w), FALSE)
    [] reg = "T2CH" ->
         IF ~via_timer_asserts(v, "t2") THEN [via |-> Asserted(v), val |-> 0]
         ELSE via_read_timer(v, via_get_t2c(v), TRUE)
    [] reg = "SR" -> [via |-> v, val |-> v.SR]
    [] reg = "ACR" -> [via |-> v, val |-> v.ACR]
    [] reg = "PCR" -> [via |-> v, val |-> v.PCR]
    [] reg = "IFR" -> [via |-> v, val |-> v.IFR]
    [] reg = "IER" -> [via |-> v, val |-> BitOr(v.IER, \h80)]
    [] OTHER -> [via |-> Asserted(v), val |-> 0]

\* A variant that loads the counter with the latch, not the latch plus 1.
via_write_T1CH_no_inc(v, val) ==
  LET w == via_clear_interrupt(v, k_int_TIMER1)
      T1L == BitOr((val * 256) % 65536, BitAnd(w.T1L, \hff))
  IN  [via_set_t1c([w EXCEPT !.T1L = T1L], T1L)
         EXCEPT !.t1_oneshot_fired = 0, !.t1_pb7 = 0]

\* case k_via_T1CH of via_write.
via_write_T1CH(v, val) ==
  LET w == via_clear_interrupt(v, k_int_TIMER1)
      T1L == BitOr((val * 256) % 65536, BitAnd(w.T1L, \hff))
  IN  [via_set_t1c([w EXCEPT !.T1L = T1L], T1L + 1)
         EXCEPT !.t1_oneshot_fired = 0, !.t1_pb7 = 0]

\* A variant that clears TIMER1 in continuous mode only.
via_write_T1LH_continuous_only(v, val) ==
  LET w == IF BitAnd(v.ACR, \h40) # 0 THEN via_clear_interrupt(v, k_int_TIMER1) ELSE v
  IN  [w EXCEPT !.T1L = BitOr((val * 256) % 65536, BitAnd(w.T1L, \hff))]

\* case k_via_T1LH of via_write.
via_write_T1LH(v, val) ==
  LET w == via_clear_interrupt(v, k_int_TIMER1)
  IN  [w EXCEPT !.T1L = BitOr((val * 256) % 65536, BitAnd(w.T1L, \hff))]

\* case k_via_T2CH of via_write.
via_write_T2CH(v, val) ==
  LET w == via_clear_interrupt(v, k_int_TIMER2)
      T2L == BitOr((val * 256) % 65536, BitAnd(w.T2L, \hff))
  IN  [via_set_t2c([w EXCEPT !.T2L = T2L], T2L + 1) EXCEPT !.t2_oneshot_fired = 0]

\* A variant that re-arms timer 1 when ACR is written.
via_write_ACR_rearm(v, val) == [v EXCEPT !.ACR = val, !.t1_oneshot_fired = 0]

\* case k_via_ACR of via_write.
via_write_ACR(v, val) == [v EXCEPT !.ACR = val]

\* A variant that clears the flags without via_check_interrupt.
via_write_IFR_no_check(v, val) == [v EXCEPT !.IFR = BitAnd(v.IFR, 255 - BitAnd(val, \h7f))]

\* case k_via_IFR of via_write.
via_write_IFR(v, val) ==
  via_check_interrupt([v EXCEPT !.IFR = BitAnd(v.IFR, 255 - BitAnd(val, \h7f))])

\* case k_via_IER of via_write.
via_write_IER(v, val) ==
  via_check_interrupt(
    IF BitAnd(val, \h80) # 0
    THEN [v EXCEPT !.IER = BitOr(v.IER, BitAnd(val, \h7f))]
    ELSE [v EXCEPT !.IER = BitAnd(v.IER, 255 - BitAnd(val, \h7f))])

via_write(v, reg, val, keys) ==
  CASE reg = "ORB" ->
         IF \/ BitAnd(v.PCR, \ha0) = \h20
            \/ BitAnd(v.PCR, \he0) = \h80
            \/ BitAnd(v.PCR, \he0) = \ha0
         THEN Asserted(v)
         ELSE via_write_port_b([v EXCEPT !.ORB = val])
    [] reg = "ORA" ->
         IF \/ BitAnd(v.PCR, \h0a) = \h02
            \/ BitAnd(v.PCR, \h0e) = \h08
            \/ BitAnd(v.PCR, \h0e) = \h0a
         THEN Asserted(v)
         ELSE via_write_port_a([v EXCEPT !.ORA = val], keys)
    [] reg = "DDRB" -> via_write_port_b([v EXCEPT !.DDRB = val])
    [] reg = "DDRA" -> via_write_port_a([v EXCEPT !.DDRA = val], keys)
    [] reg \in {"T1CL", "T1LL"} -> [v EXCEPT !.T1L = BitOr(BitAnd(v.T1L, \hff00), val)]
    [] reg = "T1CH" -> via_write_T1CH(v, val)
    [] reg = "T1LH" -> via_write_T1LH(v, val)
    [] reg = "T2CL" -> [v EXCEPT !.T2L = BitOr(BitAnd(v.T2L, \hff00), val)]
    [] reg = "T2CH" -> via_write_T2CH(v, val)
    [] reg = "SR" -> [v EXCEPT !.SR = val]
    [] reg = "ACR" -> via_write_ACR(v, val)
    [] reg = "PCR" -> [v EXCEPT !.PCR = val]
    [] reg = "IFR" -> via_write_IFR(v, val)
    [] reg = "IER" -> via_write_IER(v, val)
    [] reg = "ORAnh" -> via_write_port_a([v EXCEPT !.ORA = val], keys)
    [] OTHER -> Asserted(v)

\* A variant that never marks the one-shot timer as fired.
via_time_advance_t1_refire(v, t1c) ==
  LET fire == t1c < 0 /\ v.t1_oneshot_fired = 0
      w == IF fire
           THEN [via_raise_interrupt(v, k_int_TIMER1)
                   EXCEPT !.t1_pb7 = IF v.t1_pb7 = 0 THEN 1 ELSE 0]
           ELSE v
  IN  via_set_t1c(w, IF t1c < -1 THEN ((t1c + 1) % (v.T1L + 2)) - 1 ELSE t1c)

\* The timer 1 half of via_time_advance, t1c being via_get_t1c(p_via) - ticks.
\* The loop `while (t1c < -1) t1c += T1L + 2` ends at the one value of
\* -1 .. T1L that differs from t1c by a multiple of T1L + 2.
via_time_advance_t1(v, t1c) ==
  LET fire == t1c < 0 /\ v.t1_oneshot_fired = 0
      w == IF fire
           THEN [via_raise_interrupt(v, k_int_TIMER1)
                   EXCEPT !.t1_pb7 = IF v.t1_pb7 = 0 THEN 1 ELSE 0]
           ELSE v
      x == IF t1c < 0 /\ BitAnd(v.ACR, \h40) = 0
           THEN [w EXCEPT !.t1_oneshot_fired = 1]
           ELSE w
  IN  via_set_t1c(x, IF t1c < -1 THEN ((t1c + 1) % (v.T1L + 2)) - 1 ELSE t1c)

\* A variant that never marks timer 2 as fired.
via_time_advance_t2_refire(v, t2c) ==
  LET w == IF t2c < 0 /\ v.t2_oneshot_fired = 0
           THEN via_raise_interrupt(v, k_int_TIMER2)
           ELSE v
  IN  via_set_t2c(w, IF t2c < 0 THEN t2c % \h10000 ELSE t2c)

\* The timer 2 half, t2c being via_get_t2c(p_via) - ticks.  The loop
\* `while (t2c < 0) t2c += 0x10000` ends at t2c modulo 0x10000.
via_time_advance_t2(v, t2c) ==
  LET w == IF t2c < 0 /\ v.t2_oneshot_fired = 0
           THEN via_raise_interrupt(v, k_int_TIMER2)
           ELSE v
      x == IF t2c < 0 THEN [w EXCEPT !.t2_oneshot_fired = 1] ELSE w
  IN  via_set_t2c(x, IF t2c < 0 THEN t2c % \h10000 ELSE t2c)

via_time_advance(v, ticks) ==
  IF v.externally_clocked = 0 \/ ~via_timer_asserts(v, "t1") THEN Asserted(v)
  ELSE LET w == via_time_advance_t1(v, via_get_t1c(v) - ticks)
       IN  IF BitAnd(w.ACR, \h20) # 0 THEN w
           ELSE IF ~via_timer_asserts(w, "t2") THEN Asserted(w)
           ELSE via_time_advance_t2(w, via_get_t2c(w) - ticks)


(***************************************************************************)
(* The VIA driven through its interface: via_create, then calls of          *)
(* via_write, via_read, via_raise_interrupt, via_clear_interrupt and        *)
(* via_time_advance, one call a step.  probe names the VIA (system or user) *)
(* and the group of calls made on it; hist holds the last call, the VIA     *)
(* before it, the value via_read returned, the timers whose high counter    *)
(* byte has been written and the interrupts callers have raised since       *)
(* via_create.                                                              *)
(***************************************************************************)
\* Calls made on the VIA after via_create before the model stops following it.
MaxCalls == 5

NoKeys == [key |-> FALSE, column |-> FALSE, any |-> FALSE]

\* What the keyboard may answer to sysvia_update_port_a.
Keyboard == {NoKeys, [key |-> TRUE, column |-> TRUE, any |-> TRUE]}

ViaCall(op, reg, val) == [op |-> op, reg |-> reg, val |-> val, keys |-> NoKeys]

\* The calls of each group: the registers of timer 1, of timer 2, of the
\* interrupt logic, and of the ports.
ViaCalls(group) ==
  CASE group = "t1" ->
         {ViaCall("write", "ACR", x) : x \in {\h00, \h40, \hc0}}
         \cup {ViaCall("write", "T1CL", x) : x \in {\h00, \h02}}
         \cup {ViaCall("write", "T1CH", x) : x \in {\h00, \h01}}
         \cup {ViaCall("write", "T1LL", \h01),
               ViaCall("write", "T1LH", \h01), ViaCall("write", "IFR", \h40),
               ViaCall("write", "IER", \hc0),
               ViaCall("read", "T1CL", 0), ViaCall("read", "T1CH", 0),
               ViaCall("read", "ORB", 0)}
         \cup {ViaCall("advance", "none", x) : x \in {1, 2, 4, \h10000}}
    [] group = "t2" ->
         {ViaCall("write", "ACR", x) : x \in {\h00, \h20}}
         \cup {ViaCall("write", "T2CL", x) : x \in {\h00, \h02}}
         \cup {ViaCall("write", "T2CH", \h00), ViaCall("write", "IFR", \h20),
               ViaCall("write", "IER", \ha0),
               ViaCall("read", "T2CL", 0), ViaCall("read", "T2CH", 0)}
         \cup {ViaCall("advance", "none", x) : x \in {1, 2, 4, \h10000}}
    [] group = "irq" ->
         {ViaCall("write", "IER", x) : x \in {\hff, \hc2, \h40, \h02}}
         \cup {ViaCall("write", "IFR", x) : x \in {\hff, \h80, \h40}}
         \cup {ViaCall("raise", "none", x) : x \in {k_int_CA1, k_int_CA2, k_int_TIMER1}}
         \cup {ViaCall("clear", "none", x) : x \in {k_int_CA1, k_int_TIMER1}}
         \cup {ViaCall("read", "IFR", 0), ViaCall("read", "IER", 0),
               ViaCall("write", "T1CH", \h00), ViaCall("advance", "none", 2)}
         \cup {[ViaCall("read", "ORA", 0) EXCEPT !.keys = k] : k \in Keyboard}
    [] group = "port" ->
         {ViaCall("write", r, x) : r \in {"DDRA", "DDRB"}, x \in {\h00, \hff}}
         \cup {[ViaCall("write", r, \h8b) EXCEPT !.keys = k] :
                 r \in {"ORA", "ORAnh"}, k \in Keyboard}
         \cup {ViaCall("write", "ORB", x) : x \in {\h08, \h03}}
         \cup {ViaCall("write", "PCR", x) : x \in {\h00, \h22}}
         \cup {ViaCall("write", "SR", \h5a), ViaCall("write", "ACR", \h80),
               ViaCall("write", "none", 0)}
         \cup {ViaCall("read", r, 0) : r \in ViaRegs \cup {"none"}}
    [] OTHER -> {}

ViaProbes ==
  {[kind |-> "via", id |-> i, group |-> g] :
     i \in {"system", "user"}, g \in {"t1", "t2", "irq", "port"}}

InitVia ==
  /\ pc = "via"
  /\ p_mem \in {a + k_guard_size : a \in MapAddrs}
  /\ mem = <<>>
  /\ rom = <<>>
  /\ jit = NoJit
  /\ cpu = NoCpu
  /\ steps = 0
  /\ hist = <<>>
  /\ probe \in ViaProbes
  /\ via = via_create(probe.id, 1)

\* The timers loaded (high counter byte written) since via_create.
Loaded == IF hist = <<>> THEN {} ELSE hist[1].loaded

\* The interrupts callers have raised with via_raise_interrupt since via_create.
CallerRaised == IF hist = <<>> THEN {} ELSE hist[1].raised

\* The call c was made: it left the VIA w and returned ret.
ViaCalled(c, w, ret) ==
  /\ via' = w
  /\ pc' = IF w.st = "ok" THEN "via" ELSE "abort"
  /\ steps' = steps + 1
  /\ hist' = << [call |-> c, prev |-> via, ret |-> ret,
                 loaded |-> Loaded \cup (IF c.op = "write" /\ c.reg = "T1CH" THEN {"t1"}
                                         ELSE IF c.op = "write" /\ c.reg = "T2CH" THEN {"t2"}
                                         ELSE {}),
                 raised |-> CallerRaised \cup (IF c.op = "raise" THEN {c.val} ELSE {})] >>
  /\ UNCHANGED <<p_mem, mem, rom, jit, cpu, probe>>

ViaReady == pc = "via" /\ steps < MaxCalls

call_via_write ==
  /\ ViaReady
  /\ \E c \in ViaCalls(probe.group) :
       /\ c.op = "write"
       /\ ViaCalled(c, via_write(via, c.reg, c.val, c.keys), 0)

call_via_read ==
  /\ ViaReady
  /\ \E c \in ViaCalls(probe.group) :
       /\ c.op = "read"
       /\ ViaCalled(c, via_read(via, c.reg, c.keys).via, via_read(via, c.reg, c.keys).val)

call_via_raise_interrupt ==
  /\ ViaReady
  /\ \E c \in ViaCalls(probe.group) :
       /\ c.op = "raise"
       /\ ViaCalled(c, via_raise_interrupt(via, c.val), 0)

call_via_clear_interrupt ==
  /\ ViaReady
  /\ \E c \in ViaCalls(probe.group) :
       /\ c.op = "clear"
       /\ ViaCalled(c, via_clear_interrupt(via, c.val), 0)

call_via_time_advance ==
  /\ ViaReady
  /\ \E c \in ViaCalls(probe.group) :
       /\ c.op = "advance"
       /\ ViaCalled(c, via_time_advance(via, c.val), 0)

NextVia ==
  \/ call_via_write
  \/ call_via_read
  \/ call_via_raise_interrupt
  \/ call_via_clear_interrupt
  \/ call_via_time_advance

SpecVia == InitVia /\ [][NextVia]_vars

TypeOKVia ==
  /\ pc \in {"via", "abort"}
  /\ via.st \in {"ok", "assert"}
  /\ \A f \in {"ORB", "ORA", "DDRB", "DDRA", "SR", "ACR", "PCR", "IFR", "IER",
               "peripheral_b", "peripheral_a"} : via[f] \in Byte
  /\ via.T1L \in 0..65535 /\ via.T2L \in 0..65535
  /\ via.t1_oneshot_fired \in {0, 1} /\ via.t2_oneshot_fired \in {0, 1}
  /\ via.t1_pb7 \in {0, 1}
  /\ \A t \in DOMAIN via.timer : via.timer[t] % 2 = 0


(***************************************************************************)
(* Claims about the VIA, checked under SpecVia.                             *)
(***************************************************************************)
\* The last call on the VIA was op on register reg, and returned.
ViaDid(op, reg) ==
  /\ pc = "via"
  /\ hist # <<>>
  /\ hist[1].call.op = op
  /\ hist[1].call.reg = reg

\* C23: a write to ACR changes only ACR: counters, latches, one-shot flags,
\* PB7, IFR, IER and the IRQ level (and every other field) are as before.
C23_AcrWriteFrame ==
  ViaDid("write", "ACR") =>
    /\ via.ACR = hist[1].call.val
    /\ via = [hist[1].prev EXCEPT !.ACR = hist[1].call.val]

\* ACR is switched to continuous mode after timer 1 was loaded and has fired.
C23_Witness ==
  /\ ViaDid("write", "ACR")
  /\ "t1" \in Loaded
  /\ hist[1].prev.t1_oneshot_fired = 1
  /\ BitAnd(hist[1].prev.ACR, \h40) = 0
  /\ BitAnd(via.ACR, \h40) # 0
  /\ via.timer = hist[1].prev.timer

\* The interrupt source of the VIA in the 6502 state.
ViaLine == IF via.id = "system" THEN "irq_1" ELSE "irq_2"

\* Bit 7 of IFR is set exactly when an enabled interrupt flag is set.
IfrSummary == (Bit(via.IFR, 7) = 1) <=> (BitAnd(BitAnd(via.IER, via.IFR), \h7f) # 0)

\* A write of val to IFR clears the flags 0..6 that val names and no other;
\* bit 7 of val clears nothing.
IfrWriteClears ==
  ViaDid("write", "IFR") =>
    BitAnd(via.IFR, \h7f) =
      BitAnd(BitAnd(hist[1].prev.IFR, \h7f), 255 - BitAnd(hist[1].call.val, \h7f))

\* C27: after via_create and any calls of the interface, bit 7 of IFR is set
\* exactly when IER AND IFR AND 0x7F is non-zero, the IRQ level of the VIA's
\* line equals that bit, bit 7 of IER is clear, and a write to IFR clears only
\* flags among bits 0..6.
C27_IfrSummary ==
  (pc = "via") =>
    /\ IfrSummary
    /\ via.irq[ViaLine] = Bit(via.IFR, 7)
    /\ Bit(via.IER, 7) = 0
    /\ IfrWriteClears

\* 0x80 was written to IFR while an enabled flag was set: bit 7 and the IRQ
\* level stay.
C27_Witness ==
  /\ ViaDid("write", "IFR")
  /\ hist[1].call.val = \h80
  /\ Bit(hist[1].prev.IFR, 7) = 1
  /\ Bit(via.IFR, 7) = 1
  /\ via.irq[ViaLine] = 1

\* The last call was via_time_advance, and timer 1 passed below 0 in it.
T1Underflowed ==
  /\ ViaDid("advance", "none")
  /\ via_get_t1c(hist[1].prev) - hist[1].call.val < 0

\* The last call raised TIMER1: the flag went up, or PB7 (which toggles with
\* every raise by via_time_advance) changed.
T1Raised ==
  /\ ViaDid("advance", "none")
  /\ \/ Bit(hist[1].prev.IFR, 6) = 0 /\ Bit(via.IFR, 6) = 1
     \/ via.t1_pb7 # hist[1].prev.t1_pb7

\* In one-shot mode the first underflow after the load raises TIMER1 and marks
\* the timer as fired; without an underflow nothing is raised.
T1OneShotFires ==
  (ViaDid("advance", "none") /\ hist[1].prev.t1_oneshot_fired = 0) =>
    /\ (T1Underflowed /\ BitAnd(hist[1].prev.ACR, \h40) = 0) =>
         (T1Raised /\ Bit(via.IFR, 6) = 1 /\ via.t1_oneshot_fired = 1)
    /\ ~T1Underflowed => (~T1Raised /\ via.t1_oneshot_fired = 0)

\* Once fired, via_time_advance raises nothing.
T1FiredIsSilent ==
  (ViaDid("advance", "none") /\ hist[1].prev.t1_oneshot_fired = 1) =>
    (~T1Raised /\ via.t1_oneshot_fired = 1)

\* Only a write to T1CH makes the timer able to fire again.
T1RearmedByT1CH ==
  (pc = "via" /\ hist # <<>> /\ hist[1].prev.t1_oneshot_fired = 1 /\ via.t1_oneshot_fired = 0)
    => ViaDid("write", "T1CH")

\* C28: in one-shot mode, after a write to T1CH, via_time_advance raises
\* TIMER1 at the first underflow and at no later one until T1CH is written
\* again, whether or not the flag was cleared in between.
C28_T1OneShot == T1OneShotFires /\ T1FiredIsSilent /\ T1RearmedByT1CH

\* Timer 1 was loaded and has fired in one-shot mode, the flag was cleared,
\* and the counter underflows again: TIMER1 stays clear.
C28_Witness ==
  /\ T1Underflowed
  /\ "t1" \in Loaded
  /\ BitAnd(hist[1].prev.ACR, \h40) = 0
  /\ hist[1].prev.t1_oneshot_fired = 1
  /\ Bit(hist[1].prev.IFR, 6) = 0
  /\ Bit(via.IFR, 6) = 0
  /\ hist[1].prev.t1_pb7 = 1

\* Timer 1 counting c, c-1, ..., 0, -1, L, L-1, ... for t ticks: how often it
\* reaches -1 (an expiry), and how often it steps from -1 to the latch L.
T1Expiries(c, t, L) == IF t <= c THEN 0 ELSE 1 + ((t - c - 1) \div (L + 2))

T1Relatches(c, t, L) == IF t <= c + 1 THEN 0 ELSE 1 + ((t - c - 2) \div (L + 2))

\* The last call was via_time_advance on a timer 1 that was loaded and is
\* free-running: ACR bit 6 set, the counter on the cycle of the latch.
T1ContinuousRun ==
  /\ ViaDid("advance", "none")
  /\ "t1" \in Loaded
  /\ BitAnd(hist[1].prev.ACR, \h40) # 0
  /\ hist[1].prev.t1_oneshot_fired = 0
  /\ via_get_t1c(hist[1].prev) \in -1 .. (hist[1].prev.T1L + 1)

\* The counter is where t ticks of the cycle take it, and not below -1.
T1CyclePosition(c, t, L) ==
  /\ via_get_t1c(via) = (c - t) + (T1Relatches(c, t, L) * (L + 2))
  /\ via_get_t1c(via) >= -1
  /\ via.timer["t1"] >= -2

\* TIMER1 is raised when the call holds an expiry, and only then.
T1FlagPerPeriod(c, t, L) ==
  /\ T1Expiries(c, t, L) >= 1 => Bit(via.IFR, 6) = 1
  /\ T1Expiries(c, t, L) = 0 => Bit(via.IFR, 6) = Bit(hist[1].prev.IFR, 6)

\* PB7 has toggled once for every expiry in the call.
T1Pb7PerPeriod(c, t, L) ==
  via.t1_pb7 = (hist[1].prev.t1_pb7 + T1Expiries(c, t, L)) % 2

\* C29: in continuous mode with latch L, after a write to T1CH, the counter
\* follows L, ..., 0, -1, L, ... with period L + 2, is never below -1 after
\* via_time_advance, and TIMER1 is raised and PB7 toggled once per period
\* however the ticks are split across calls.
C29_T1Continuous ==
  T1ContinuousRun =>
    /\ T1CyclePosition(via_get_t1c(hist[1].prev), hist[1].call.val, hist[1].prev.T1L)
    /\ T1FlagPerPeriod(via_get_t1c(hist[1].prev), hist[1].call.val, hist[1].prev.T1L)
    /\ T1Pb7PerPeriod(via_get_t1c(hist[1].prev), hist[1].call.val, hist[1].prev.T1L)

\* The last call was via_time_advance with timer 2 counting (ACR bit 5 clear).
T2Counted == ViaDid("advance", "none") /\ BitAnd(hist[1].prev.ACR, \h20) = 0

\* Timer 2 passed below 0 in the last call.
T2Underflowed == T2Counted /\ via_get_t2c(hist[1].prev) - hist[1].call.val < 0

\* The first underflow after the load raises TIMER2 and marks the timer as
\* fired; without an underflow the flag is left alone.
T2OneShotFires ==
  (T2Counted /\ hist[1].prev.t2_oneshot_fired = 0) =>
    /\ T2Underflowed => (Bit(via.IFR, 5) = 1 /\ via.t2_oneshot_fired = 1)
    /\ ~T2Underflowed =>
         (Bit(via.IFR, 5) = Bit(hist[1].prev.IFR, 5) /\ via.t2_oneshot_fired = 0)

\* Once fired, via_time_advance leaves TIMER2 alone, and only a write to T2CH
\* makes the timer able to fire again.
T2FiredIsSilent ==
  /\ (ViaDid("advance", "none") /\ hist[1].prev.t2_oneshot_fired = 1) =>
       (Bit(via.IFR, 5) = Bit(hist[1].prev.IFR, 5) /\ via.t2_oneshot_fired = 1)
  /\ (pc = "via" /\ hist # <<>> /\ hist[1].prev.t2_oneshot_fired = 1
        /\ via.t2_oneshot_fired = 0) => ViaDid("write", "T2CH")

\* The counter goes down by the ticks, from 0 on to 0xFFFF, and is within
\* 0..0xFFFF after a call that moved it.
T2Wraps ==
  T2Counted =>
    /\ (via_get_t2c(via) - (via_get_t2c(hist[1].prev) - hist[1].call.val)) % \h10000 = 0
    /\ T2Underflowed => via_get_t2c(via) \in 0 .. \hffff
    /\ ~T2Underflowed => via_get_t2c(via) = via_get_t2c(hist[1].prev) - hist[1].call.val
    /\ hist[1].call.val > 0 => via_get_t2c(via) \in 0 .. \hffff

\* In pulse counting mode via_time_advance leaves timer 2 and TIMER2 alone.
T2PulseCounting ==
  (ViaDid("advance", "none") /\ BitAnd(hist[1].prev.ACR, \h20) # 0) =>
    /\ via.timer["t2"] = hist[1].prev.timer["t2"]
    /\ Bit(via.IFR, 5) = Bit(hist[1].prev.IFR, 5)
    /\ via.t2_oneshot_fired = hist[1].prev.t2_oneshot_fired

\* C30: timer 2 is one-shot: after a write to T2CH, TIMER2 is raised when the
\* counter first passes below 0, the counter goes on from 0xFFFF within
\* 0..0xFFFF without raising TIMER2 again until T2CH is rewritten, and in
\* pulse counting mode via_time_advance touches neither counter nor flag.
C30_T2OneShot == T2OneShotFires /\ T2FiredIsSilent /\ T2Wraps /\ T2PulseCounting

\* Timer 2 was loaded and has fired, the flag was cleared, and the counter
\* passes below 0 again: it wraps and TIMER2 stays clear.
C30_Witness ==
  /\ T2Underflowed
  /\ "t2" \in Loaded
  /\ hist[1].prev.t2_oneshot_fired = 1
  /\ Bit(hist[1].prev.IFR, 5) = 0
  /\ Bit(via.IFR, 5) = 0
  /\ via_get_t2c(via) \in 0 .. \hffff

\* C31: power-on is no timer load: while neither T1CH nor T2CH has been
\* written (and no caller has raised a timer interrupt itself), no calls of
\* via_time_advance, via_read and via_write set TIMER1 or TIMER2 in IFR,
\* although both counters start at 0xFFFF and underflow.
C31_PowerOnNoLoad ==
  (pc = "via" /\ Loaded = {} /\ CallerRaised \cap {k_int_TIMER1, k_int_TIMER2} = {}) =>
    /\ Bit(via.IFR, 6) = 0
    /\ Bit(via.IFR, 5) = 0
    /\ via.t1_oneshot_fired = 1
    /\ via.t2_oneshot_fired = 1

\* Both counters pass below 0 in one via_time_advance call on a VIA whose
\* timers were never loaded.
C31_Witness ==
  /\ T1Underflowed
  /\ T2Underflowed
  /\ Loaded = {}
  /\ via_get_t1c(hist[1].prev) = \hffff
  /\ Bit(via.IFR, 6) = 0
  /\ Bit(via.IFR, 5) = 0

\* A write of v to T1CH: TIMER1 cleared, the latch's high byte v and its low
\* byte kept, the counter loaded with the latch plus 1, the fired flag and
\* PB7 cleared.
T1CHWriteLoads ==
  ViaDid("write", "T1CH") =>
    /\ Bit(via.IFR, 6) = 0
    /\ via.T1L = (hist[1].call.val * 256) + (hist[1].prev.T1L % 256)
    /\ via_get_t1c(via) = via.T1L + 1
    /\ via.timer["t1"] = 2 * (via.T1L + 1)
    /\ via.t1_oneshot_fired = 0
    /\ via.t1_pb7 = 0

\* A write to T1CL or T1LL: the latch's low byte and nothing else.
T1LowWriteFrame ==
  (ViaDid("write", "T1CL") \/ ViaDid("write", "T1LL")) =>
    /\ via.T1L = ((hist[1].prev.T1L \div 256) * 256) + hist[1].call.val
    /\ via = [hist[1].prev EXCEPT !.T1L = via.T1L]

\* C32: a write of v to T1CH clears TIMER1, sets the high byte of the T1 latch
\* to v keeping the low byte, loads the counter with the latch plus 1 and
\* clears the fired flag and PB7; a write to T1CL or T1LL changes only the low
\* byte of the latch.
C32_T1Writes == T1CHWriteLoads /\ T1LowWriteFrame

\* T1CH is written with 1 over a latch whose low byte was set to 2, with
\* TIMER1 pending, the timer fired and PB7 set.
C32_Witness ==
  /\ ViaDid("write", "T1CH")
  /\ hist[1].call.val = 1
  /\ hist[1].prev.T1L % 256 = 2
  /\ Bit(hist[1].prev.IFR, 6) = 1
  /\ hist[1].prev.t1_oneshot_fired = 1
  /\ hist[1].prev.t1_pb7 = 1
  /\ via_get_t1c(via) = \h0103

\* The fields of the VIA that a latch write must leave alone: the counters,
\* the fired flags, PB7, and every register but T1L and IFR.
SameButLatchAndFlags(v, w) ==
  /\ v.timer = w.timer
  /\ v.t1_oneshot_fired = w.t1_oneshot_fired
  /\ v.t2_oneshot_fired = w.t2_oneshot_fired
  /\ v.t1_pb7 = w.t1_pb7
  /\ \A f \in {"ORB", "ORA", "DDRB", "DDRA", "SR", "ACR", "PCR", "IER", "T2L",
               "peripheral_a", "peripheral_b"} : v[f] = w[f]

\* C33: a write to T1LH clears TIMER1 in one-shot mode as in continuous mode,
\* sets only the high byte of the T1 latch, and neither reloads the counter
\* nor changes the fired flag or PB7.
C33_T1LHWrite ==
  ViaDid("write", "T1LH") =>
    /\ Bit(via.IFR, 6) = 0
    /\ BitAnd(via.IFR, \h3f) = BitAnd(hist[1].prev.IFR, \h3f)
    /\ via.T1L = (hist[1].call.val * 256) + (hist[1].prev.T1L % 256)
    /\ SameButLatchAndFlags(via, hist[1].prev)

\* T1LH is written in one-shot mode while TIMER1 is pending and the timer has
\* fired.
C33_Witness ==
  /\ ViaDid("write", "T1LH")
  /\ BitAnd(hist[1].prev.ACR, \h40) = 0
  /\ Bit(hist[1].prev.IFR, 6) = 1
  /\ hist[1].prev.t1_oneshot_fired = 1
  /\ hist[1].prev.T1L \div 256 # hist[1].call.val
  /\ Bit(via.IFR, 6) = 0

\* PB7 toggles in a via_time_advance call exactly when the call raises TIMER1
\* (an underflow of a timer that has not fired), whatever ACR bit 7 is.
Pb7Maintained ==
  ViaDid("advance", "none") =>
    /\ (T1Underflowed /\ hist[1].prev.t1_oneshot_fired = 0) =>
         (via.t1_pb7 = 1 - hist[1].prev.t1_pb7 /\ Bit(via.IFR, 6) = 1)
    /\ ~(T1Underflowed /\ hist[1].prev.t1_oneshot_fired = 0) =>
         via.t1_pb7 = hist[1].prev.t1_pb7

\* What ORB, DDRB and the port input (0xFF) give on a read of ORB.
PortBRead(v) == BitOr(BitAnd(v.ORB, v.DDRB), 255 - v.DDRB)

\* A read of ORB has PB7 in bit 7 when ACR bit 7 is set, and otherwise the bit
\* of ORB, DDRB and the port input; bits 0..6 are theirs in both cases.
OrbReadMixesPb7 ==
  ViaDid("read", "ORB") =>
    /\ hist[1].ret % 128 = PortBRead(via) % 128
    /\ Bit(hist[1].ret, 7) = IF Bit(via.ACR, 7) = 1 THEN via.t1_pb7
                             ELSE Bit(PortBRead(via), 7)

\* C34: the PB7 bit is maintained whether or not PB7 mode is active: it
\* toggles on a timer 1 expiry that raises TIMER1 whatever ACR bit 7 is, and
\* a read of ORB returns it in bit 7 exactly when ACR bit 7 is set.
C34_Pb7 == Pb7Maintained /\ OrbReadMixesPb7

\* ORB is read in PB7 mode after the loaded timer has expired an even number
\* of times: bit 7 reads 0 although the port gives 1.
C34_Witness ==
  /\ ViaDid("read", "ORB")
  /\ "t1" \in Loaded
  /\ Bit(via.ACR, 7) = 1
  /\ Bit(via.IFR, 6) = 1
  /\ via.t1_pb7 = 0
  /\ hist[1].ret = \h7f

\* The asserts on PCR and ACR that guard a read of register reg pass.
ReadConfigOK(v, reg) ==
  CASE reg = "ORB" -> BitAnd(v.PCR, \ha0) # \h20 /\ BitAnd(v.ACR, \h02) = 0
    [] reg = "ORA" -> BitAnd(v.PCR, \h0a) # \h02 /\ BitAnd(v.ACR, \h01) = 0
    [] reg = "ORAnh" -> BitAnd(v.ACR, \h01) = 0
    [] OTHER -> TRUE

\* The last call was a read of register reg, returned or not.
ViaRead(reg) ==
  /\ hist # <<>>
  /\ hist[1].call.op = "read"
  /\ hist[1].call.reg = reg

\* C35: every register via_write accepts is read by via_read without
\* reaching the trailing assert(0), and a read of DDRA or DDRB returns the
\* value last written to it.
C35_ReadBack ==
  \A reg \in ViaRegs :
    (ViaRead(reg) /\ ReadConfigOK(hist[1].prev, reg)) =>
      /\ pc = "via"
      /\ via.st = "ok"
      /\ reg \in {"DDRA", "DDRB"} => hist[1].ret = hist[1].prev[reg]


(***************************************************************************)
(* main with a VIA beside it: the program of Spec, and a peripheral call    *)
(* (via_raise_interrupt on a VIA whose interrupts are enabled) that may     *)
(* come between two slots of the translated code.  probe records after how  *)
(* many slots the interrupt was raised.                                     *)
(***************************************************************************)
\* LDA #v; LDA #$55; LDX #1; LDY #2; NOP at the reset vector, LDA #$AA at the
\* IRQ vector's target 0xC010.
IrqImages ==
  {Image(\hc000, <<>>,
         << <<\hc000, <<\ha9, v, \ha9, \h55, \ha2, \h01, \ha0, \h02, \hea>> >>,
            <<\hc010, <<\ha9, \haa>> >>,
            <<\hfffe, <<\h10, \hc0>> >> >>) : v \in {\h00, \h01, \h80}}

InitIrq ==
  /\ pc = "jit_init"
  /\ p_mem \in {a + k_guard_size : a \in MapAddrs}
  /\ mem \in IrqImages
  /\ rom = <<>>
  /\ jit = NoJit
  /\ cpu = NoCpu
  /\ steps = 0
  /\ hist = <<>>
  /\ probe = <<>>
  /\ via \in {via_write(via_create(id, 1), "IER", \hff, NoKeys) : id \in {"system", "user"}}

peripheral_raise ==
  /\ pc = "running"
  /\ probe = <<>>
  /\ \E val \in {k_int_CA1, k_int_CA2, k_int_TIMER1} :
       via' = via_raise_interrupt(via, val)
  /\ probe' = [kind |-> "irq", at |-> steps]
  /\ UNCHANGED <<pc, p_mem, mem, rom, jit, cpu, steps, hist>>

NextIrq == main_jit_init \/ main_jit_jit \/ main_jit_enter \/ ExecSlot \/ peripheral_raise

SpecIrq == InitIrq /\ [][NextIrq]_vars

\* The IRQ level of the VIA's line was raised, and one slot has run since.
IrqThenSlot ==
  /\ probe # <<>>
  /\ via.irq[ViaLine] = 1
  /\ steps = probe.at + 1

\* The guest address in the IRQ/BRK vector.
IrqVector == MemRead(rom, \hfffe) + (256 * MemRead(rom, \hffff))

\* C22: when a peripheral has raised the IRQ level while the guest I flag is
\* 0, the instruction at the next boundary is not executed: the translated
\* code returns to the supervisor and execution goes to the vector at 0xFFFE.
C22_IrqPreempts ==
  (IrqThenSlot /\ Bit(P_of(before), 2) = 0) =>
    /\ SameRegs(before, cpu)
    /\ PC_of(cpu) = IrqVector

====
